---- MODULE Spec2Model ----
(***************************************************************************)
(* A state-machine model of the ogx360 firmware: the host-side XINPUT      *)
(* decoder (usbh_xinput.cpp), the mapping engine and coordinator loop      *)
(* (master.cpp, main.cpp) and the console-facing XID emulation             *)
(* (usbd_xid.cpp).  Every C function is an operator from the state it      *)
(* reads to the state it leaves; the actions compose these operators the   *)
(* way the handlers call them.                                              *)
(***************************************************************************)
EXTENDS Integers, Sequences, FiniteSets, TLC

VARIABLES
    xin,              \* the XINPUT class instance: bAddress, dev_type, bIsReady
    xinput_devices,   \* usbh_xinput.cpp: static usbh_xinput_t xinput_devices[4]
    xdata,            \* usbh_xinput.cpp: static uint8_t xdata[256] (the bytes a packet can reach)
    usbd_c,           \* main.cpp: usbd_controller_t usbd_c[MAX_GAMEPADS]
    user_data,        \* master.cpp: xinput_user_data_t user_data[MAX_GAMEPADS]
    sb_sensitivity,   \* master.cpp: uint16_t sb_sensitivity
    eeprom,           \* EEPROM cells 0 (magic) and 1 (sensitivity), and the number of writes
    xid,              \* the XID_ object: xid_type, xid_in_data, xid_out_data, xid_out_expired
    detach,           \* UDCON's DETACH bit: TRUE when the console-facing bus is detached
    now,              \* millis()
    poll_timer,       \* main.cpp loop(): static uint32_t poll_timer
    pc,               \* position inside loop(): "task" before master_task, "poll" before the poll tick
    peer_c,           \* the peer boards 1..3: each one's own usbd_c[0] and XID_ object
    last,             \* observation of the last operation: its name, inputs and results
    edge              \* observation of the was-pressed queries, per queried code

vars == <<xin, xinput_devices, xdata, usbd_c, user_data, sb_sensitivity, eeprom,
          xid, detach, now, poll_timer, pc, peer_c, last, edge>>

----------------------------------------------------------------------------
(* Bounds of the model *)

\* millis() is not advanced beyond this value in the coordinator specification
MaxNow == 12
\* millis() is not advanced beyond this value in the toggle-switch specification
MaxNowToggle == 4
\* millis() is not advanced beyond this value in the host-driver specification
MaxNowHost == 40
\* millis() is not advanced beyond this value in the cockpit-mapping specification
MaxNowMap == 501
\* the number of handle_sbattalion calls in a run of the cockpit-mapping specification
MaxTicks == 3
\* millis() is not advanced beyond this value in the XID specification
MaxNowXid == 752

----------------------------------------------------------------------------
(* Fixed-width arithmetic *)

RECURSIVE BitAnd(_, _)
BitAnd(a, b) ==
    IF a = 0 \/ b = 0 THEN 0
    ELSE (a % 2) * (b % 2) + 2 * BitAnd(a \div 2, b \div 2)

RECURSIVE BitOr(_, _)
BitOr(a, b) ==
    IF a = 0 THEN b
    ELSE IF b = 0 THEN a
    ELSE (IF (a % 2) + (b % 2) > 0 THEN 1 ELSE 0) + 2 * BitOr(a \div 2, b \div 2)

RECURSIVE BitXor(_, _)
BitXor(a, b) ==
    IF a = 0 THEN b
    ELSE IF b = 0 THEN a
    ELSE (((a % 2) + (b % 2)) % 2) + 2 * BitXor(a \div 2, b \div 2)

\* a & ~m on 16-bit words
BitClear(a, m) == a - BitAnd(a, m)

U8(v)  == v % 256
U16(v) == v % 65536
\* the uint32_t expression millis() - timer.  A timer is kept as an integer congruent
\* to its 32-bit pattern, so the difference is exact while it is non-negative; when the
\* subtraction wraps the result lies above every threshold the code compares it with
Elapsed(t, timer) == IF t >= timer THEN t - timer ELSE 2147483647
\* the value of a 16-bit pattern read as int16_t
S16(v) == IF U16(v) >= 32768 THEN U16(v) - 65536 ELSE U16(v)
\* the value of an 8-bit pattern read as int8_t
S8(v) == IF U8(v) >= 128 THEN U8(v) - 256 ELSE U8(v)

Abs(v) == IF v < 0 THEN -v ELSE v
\* C's integer division, truncating towards zero
CDiv(a, b) == IF a >= 0 THEN a \div b ELSE -((-a) \div b)
\* Arduino's constrain(amt, low, high)
constrain(amt, low, high) == IF amt < low THEN low ELSE IF amt > high THEN high ELSE amt
MIN(a, b) == IF a < b THEN a ELSE b

Zeros(n) == [i \in 0..(n - 1) |-> 0]

----------------------------------------------------------------------------
(* usbh_xinput.h *)

XINPUT_MAXGAMEPADS == 4
EP_MAXPKTSIZE == 32

XINPUT_GAMEPAD_DPAD_UP == 1
XINPUT_GAMEPAD_DPAD_DOWN == 2
XINPUT_GAMEPAD_DPAD_LEFT == 4
XINPUT_GAMEPAD_DPAD_RIGHT == 8
XINPUT_GAMEPAD_START == 16
XINPUT_GAMEPAD_BACK == 32
XINPUT_GAMEPAD_LEFT_THUMB == 64
XINPUT_GAMEPAD_RIGHT_THUMB == 128
XINPUT_GAMEPAD_LEFT_SHOULDER == 256
XINPUT_GAMEPAD_RIGHT_SHOULDER == 512
XINPUT_GAMEPAD_XBOX_BUTTON == 1024
XINPUT_GAMEPAD_SYNC == 2048
XINPUT_GAMEPAD_A == 4096
XINPUT_GAMEPAD_B == 8192
XINPUT_GAMEPAD_X == 16384
XINPUT_GAMEPAD_Y == 32768

XINPUT_CHATPAD_1 == 23
XINPUT_CHATPAD_2 == 22
XINPUT_CHATPAD_3 == 21
XINPUT_CHATPAD_4 == 20
XINPUT_CHATPAD_5 == 19
XINPUT_CHATPAD_6 == 18
XINPUT_CHATPAD_7 == 17
XINPUT_CHATPAD_8 == 103
XINPUT_CHATPAD_9 == 102
XINPUT_CHATPAD_0 == 101
XINPUT_CHATPAD_Q == 39
XINPUT_CHATPAD_W == 38
XINPUT_CHATPAD_U == 33
XINPUT_CHATPAD_I == 118
XINPUT_CHATPAD_P == 100
XINPUT_CHATPAD_A == 55
XINPUT_CHATPAD_S == 54
XINPUT_CHATPAD_D == 53
XINPUT_CHATPAD_F == 52
XINPUT_CHATPAD_G == 51
XINPUT_CHATPAD_J == 49
XINPUT_CHATPAD_K == 119
XINPUT_CHATPAD_COMMA == 98
XINPUT_CHATPAD_Z == 70
XINPUT_CHATPAD_X == 69
XINPUT_CHATPAD_C == 68
XINPUT_CHATPAD_V == 67
XINPUT_CHATPAD_N == 65
XINPUT_CHATPAD_M == 82
XINPUT_CHATPAD_ENTER == 99
XINPUT_CHATPAD_LEFT == 85
XINPUT_CHATPAD_SPACE == 84
XINPUT_CHATPAD_RIGHT == 81
XINPUT_CHATPAD_BACK == 113
XINPUT_CHATPAD_SHIFT == 1
XINPUT_CHATPAD_GREEN == 2
XINPUT_CHATPAD_ORANGE == 4
XINPUT_CHATPAD_MESSENGER == 8
XINPUT_CHATPAD_CAPSLOCK == 32

\* xinput_type_t
XINPUT_UNKNOWN == 0
XBOXONE == 1
XBOX360_WIRELESS == 2
XBOX360_WIRED == 3
XBOXOG == 4
XINPUT_KEYBOARD == 5
XINPUT_MOUSE == 6
XINPUT_8BITDO_IDLE == 7

\* xinput_padstate_t, all zero
ZeroPad ==
    [wButtons |-> 0, bLeftTrigger |-> 0, bRightTrigger |-> 0,
     sThumbLX |-> 0, sThumbLY |-> 0, sThumbRX |-> 0, sThumbRY |-> 0]

\* usbh_xinput_t after memset(.., 0, ..); the pipes are endpoint indices, 0 for NULL
ZeroDevice ==
    [itf_num |-> 0, bAddress |-> 0, usbh_inPipe |-> 0, usbh_outPipe |-> 0,
     type |-> XINPUT_UNKNOWN, pad_state |-> ZeroPad, pad_state_wButtons_old |-> 0,
     lValue_requested |-> 0, rValue_requested |-> 0,
     lValue_actual |-> 0, rValue_actual |-> 0,
     led_requested |-> 0, led_actual |-> 0,
     chatpad_initialised |-> 0,
     chatpad_state |-> Zeros(3), chatpad_state_old |-> Zeros(3),
     chatpad_led_requested |-> 0, chatpad_led_actual |-> 0,
     chatpad_keepalive_toggle |-> 0,
     timer_periodic |-> 0, timer_out |-> 0, timer_poweroff |-> 0]

----------------------------------------------------------------------------
(* usbh_xinput.cpp: the pressed / was-pressed queries *)

usbh_xinput_is_chatpad_pressed(x, code) ==
    IF x.bAddress = 0 THEN 0
    ELSE IF code < 17 /\ BitAnd(x.chatpad_state[0], code) # 0 THEN 1
    ELSE IF code < 17 THEN 0
    ELSE IF x.chatpad_state[1] = code \/ x.chatpad_state[2] = code THEN 1
    ELSE 0

\* the first i in 0..2 with old[i] = 0, or 3 when the history is full
FirstFreeHistory(old) ==
    IF old[0] = 0 THEN 0 ELSE IF old[1] = 0 THEN 1 ELSE IF old[2] = 0 THEN 2 ELSE 3

\* returns [ret, x]: the query's result and the record it leaves
usbh_xinput_was_chatpad_pressed(x, code) ==
    IF usbh_xinput_is_chatpad_pressed(x, code) = 0
    THEN [ret |-> 0,
          x |-> [x EXCEPT !.chatpad_state_old =
                    [i \in 0..2 |-> IF x.chatpad_state_old[i] = code THEN 0
                                    ELSE x.chatpad_state_old[i]]]]
    ELSE IF /\ x.chatpad_state_old[0] # code
            /\ x.chatpad_state_old[1] # code
            /\ x.chatpad_state_old[2] # code
            /\ FirstFreeHistory(x.chatpad_state_old) < 3
    THEN [ret |-> 1,
          x |-> [x EXCEPT !.chatpad_state_old[FirstFreeHistory(x.chatpad_state_old)] = code]]
    ELSE [ret |-> 0, x |-> x]

\* the return type is uint8_t: the 16-bit AND is cut to its low byte
usbh_xinput_is_gamepad_pressed(x, button_mask) ==
    IF x.bAddress = 0 THEN 0
    ELSE U8(BitAnd(x.pad_state.wButtons, button_mask))

usbh_xinput_was_gamepad_pressed(x, button_mask) ==
    IF usbh_xinput_is_gamepad_pressed(x, button_mask) # 0
    THEN IF BitAnd(x.pad_state_wButtons_old, button_mask) = 0
         THEN [ret |-> 1,
               x |-> [x EXCEPT !.pad_state_wButtons_old = BitOr(@, button_mask)]]
         ELSE [ret |-> 0, x |-> x]
    ELSE [ret |-> 0,
          x |-> [x EXCEPT !.pad_state_wButtons_old = BitClear(@, button_mask)]]

----------------------------------------------------------------------------
(* usbh_xinput.cpp: device pool and packet output *)

\* "no record": the value of a NULL usbh_xinput_t pointer, as a pool index past the end
NoDevice == XINPUT_MAXGAMEPADS

\* sizeof(xdata)
XDATA_SIZE == 256

\* the command blobs of usbh_xinput.h that are copied into xdata
xbox360w_controller_info == <<0, 0, 0, 64>>
xbox360w_unknown == <<0, 0, 2, 128>>
xbox360w_rumble_enable == <<0, 0, 8, 1>>
xboxone_start_input == <<5, 32, 3, 1, 0>>

\* memcpy(xdata, data, len): data is a sequence, xdata a function over 0..EP_MAXPKTSIZE-1
CopyToXdata(xd, data) ==
    [i \in DOMAIN xd |-> IF i < Len(data) THEN data[i + 1] ELSE xd[i]]

\* h is the host-side state [devs, xdata]; idx the record written to
WritePacket(h, idx, data, t) ==
    [devs |-> [h.devs EXCEPT ![idx].timer_out = t],
     xdata |-> CopyToXdata(h.xdata, data)]

\* FirstFreeDevice taking the highest free index
FirstFreeDevice_Highest(devs) ==
    IF \E i \in 0..(XINPUT_MAXGAMEPADS - 1) : devs[i].bAddress = 0
    THEN CHOOSE i \in 0..(XINPUT_MAXGAMEPADS - 1) :
            /\ devs[i].bAddress = 0
            /\ \A j \in (i + 1)..(XINPUT_MAXGAMEPADS - 1) : devs[j].bAddress # 0
    ELSE NoDevice

\* the first index whose record has bAddress 0, or NoDevice
FirstFreeDevice(devs) ==
    IF \E i \in 0..(XINPUT_MAXGAMEPADS - 1) : devs[i].bAddress = 0
    THEN CHOOSE i \in 0..(XINPUT_MAXGAMEPADS - 1) :
            /\ devs[i].bAddress = 0
            /\ \A j \in 0..(i - 1) : devs[j].bAddress # 0
    ELSE NoDevice

\* returns [h, idx]; idx = NoDevice when the pool is full.  Only the fields the code
\* assigns are written: the record keeps whatever else it held.
alloc_xinput_device(h, bAddress, itf_num, in, out, type, t) ==
    LET index == FirstFreeDevice(h.devs) IN
    IF index = NoDevice THEN [h |-> h, idx |-> NoDevice]
    ELSE
      LET d1 == [h.devs[index] EXCEPT
                    !.bAddress = bAddress, !.itf_num = itf_num, !.type = type,
                    !.usbh_inPipe = in, !.usbh_outPipe = out,
                    !.led_requested = index + 1,
                    !.chatpad_led_requested = XINPUT_CHATPAD_GREEN]
          h1 == [h EXCEPT !.devs[index] = d1]
          h2 == IF type = XBOX360_WIRELESS
                THEN WritePacket(WritePacket(WritePacket(h1, index,
                         xbox360w_controller_info, t), index,
                         xbox360w_unknown, t), index,
                         xbox360w_rumble_enable, t)
                ELSE IF type = XBOXONE
                THEN WritePacket(h1, index, xboxone_start_input, t)
                ELSE h1
      IN [h |-> h2, idx |-> index]

free_xinput_device(h, idx) ==
    IF idx \in 0..(XINPUT_MAXGAMEPADS - 1)
    THEN [h EXCEPT !.devs[idx] = ZeroDevice]
    ELSE h

----------------------------------------------------------------------------
(* usbh_xinput.cpp: ParseInputData *)

\* the per-family tables of <<source bit, canonical mask>>
WiredBits ==
    << <<0, XINPUT_GAMEPAD_DPAD_UP>>, <<1, XINPUT_GAMEPAD_DPAD_DOWN>>,
       <<2, XINPUT_GAMEPAD_DPAD_LEFT>>, <<3, XINPUT_GAMEPAD_DPAD_RIGHT>>,
       <<4, XINPUT_GAMEPAD_START>>, <<5, XINPUT_GAMEPAD_BACK>>,
       <<6, XINPUT_GAMEPAD_LEFT_THUMB>>, <<7, XINPUT_GAMEPAD_RIGHT_THUMB>>,
       <<8, XINPUT_GAMEPAD_LEFT_SHOULDER>>, <<9, XINPUT_GAMEPAD_RIGHT_SHOULDER>>,
       <<12, XINPUT_GAMEPAD_A>>, <<13, XINPUT_GAMEPAD_B>>,
       <<14, XINPUT_GAMEPAD_X>>, <<15, XINPUT_GAMEPAD_Y>> >>

WirelessBits ==
    << <<0, XINPUT_GAMEPAD_DPAD_UP>>, <<1, XINPUT_GAMEPAD_DPAD_DOWN>>,
       <<2, XINPUT_GAMEPAD_DPAD_LEFT>>, <<3, XINPUT_GAMEPAD_DPAD_RIGHT>>,
       <<4, XINPUT_GAMEPAD_START>>, <<5, XINPUT_GAMEPAD_BACK>>,
       <<6, XINPUT_GAMEPAD_LEFT_THUMB>>, <<7, XINPUT_GAMEPAD_RIGHT_THUMB>>,
       <<8, XINPUT_GAMEPAD_LEFT_SHOULDER>>, <<9, XINPUT_GAMEPAD_RIGHT_SHOULDER>>,
       <<10, XINPUT_GAMEPAD_XBOX_BUTTON>>,
       <<12, XINPUT_GAMEPAD_A>>, <<13, XINPUT_GAMEPAD_B>>,
       <<14, XINPUT_GAMEPAD_X>>, <<15, XINPUT_GAMEPAD_Y>> >>

XboxOneBits ==
    << <<8, XINPUT_GAMEPAD_DPAD_UP>>, <<9, XINPUT_GAMEPAD_DPAD_DOWN>>,
       <<10, XINPUT_GAMEPAD_DPAD_LEFT>>, <<11, XINPUT_GAMEPAD_DPAD_RIGHT>>,
       <<2, XINPUT_GAMEPAD_START>>, <<3, XINPUT_GAMEPAD_BACK>>,
       <<14, XINPUT_GAMEPAD_LEFT_THUMB>>, <<15, XINPUT_GAMEPAD_RIGHT_THUMB>>,
       <<12, XINPUT_GAMEPAD_LEFT_SHOULDER>>, <<13, XINPUT_GAMEPAD_RIGHT_SHOULDER>>,
       <<4, XINPUT_GAMEPAD_A>>, <<5, XINPUT_GAMEPAD_B>>,
       <<6, XINPUT_GAMEPAD_X>>, <<7, XINPUT_GAMEPAD_Y>> >>

XboxOGBits ==
    << <<0, XINPUT_GAMEPAD_DPAD_UP>>, <<1, XINPUT_GAMEPAD_DPAD_DOWN>>,
       <<2, XINPUT_GAMEPAD_DPAD_LEFT>>, <<3, XINPUT_GAMEPAD_DPAD_RIGHT>>,
       <<4, XINPUT_GAMEPAD_START>>, <<5, XINPUT_GAMEPAD_BACK>>,
       <<6, XINPUT_GAMEPAD_LEFT_THUMB>>, <<7, XINPUT_GAMEPAD_RIGHT_THUMB>> >>

\* the analog-encoded buttons of the original-Xbox family: <<byte offset, canonical mask>>
XboxOGAnalog ==
    << <<4, XINPUT_GAMEPAD_A>>, <<5, XINPUT_GAMEPAD_B>>, <<6, XINPUT_GAMEPAD_X>>,
       <<7, XINPUT_GAMEPAD_Y>>, <<8, XINPUT_GAMEPAD_RIGHT_SHOULDER>>,
       <<9, XINPUT_GAMEPAD_LEFT_SHOULDER>> >>

\* `if (wButtons & (1 << bit)) pad |= mask` for every row of the table, from row k on
RECURSIVE MapDigital(_, _, _)
MapDigital(wButtons, table, k) ==
    IF k > Len(table) THEN 0
    ELSE BitOr(IF (wButtons \div (2 ^ table[k][1])) % 2 = 1 THEN table[k][2] ELSE 0,
               MapDigital(wButtons, table, k + 1))

\* MapAnalog with the cut at 0x20 itself
RECURSIVE MapAnalog_AtThreshold(_, _, _)
MapAnalog_AtThreshold(xd, table, k) ==
    IF k > Len(table) THEN 0
    ELSE BitOr(IF xd[table[k][1]] >= 32 THEN table[k][2] ELSE 0,
               MapAnalog_AtThreshold(xd, table, k + 1))

\* `if (xdata[off] > 0x20) pad |= mask` for every row of the table, from row k on
RECURSIVE MapAnalog(_, _, _)
MapAnalog(xd, table, k) ==
    IF k > Len(table) THEN 0
    ELSE BitOr(IF xd[table[k][1]] > 32 THEN table[k][2] ELSE 0,
               MapAnalog(xd, table, k + 1))

\* xdata[b] | (xdata[b + 1] << 8)
Word(xd, b) == xd[b] + 256 * xd[b + 1]

\* the pad state read from xdata: buttons word at bw with `table`, triggers lt/rt
\* (already reduced to bytes), the four sticks from byte st on
PadFrom(xd, buttons, lt, rt, st) ==
    [wButtons |-> buttons, bLeftTrigger |-> lt, bRightTrigger |-> rt,
     sThumbLX |-> S16(Word(xd, st)), sThumbLY |-> S16(Word(xd, st + 2)),
     sThumbRX |-> S16(Word(xd, st + 4)), sThumbRY |-> S16(Word(xd, st + 6))]

ParseWired(h, xp) ==
    LET xd == h.xdata IN
    IF xd[0] = 1 /\ XDATA_SIZE >= 3
    THEN LET la == BitAnd(xd[2], 15)
             led == IF la # 0 THEN la - (IF la > 5 THEN 5 ELSE 1) ELSE la
         IN [ret |-> FALSE, h |-> [h EXCEPT !.devs[xp].led_actual = led], xp |-> xp]
    ELSE IF xd[0] = 3 /\ XDATA_SIZE >= 5
    THEN [ret |-> FALSE,
          h |-> [h EXCEPT !.devs[xp].lValue_actual = U8(xd[3] * 256),
                          !.devs[xp].rValue_actual = U8(xd[4] * 256)],
          xp |-> xp]
    ELSE IF xd[0] # 0 \/ xd[1] # 20 \/ XDATA_SIZE < 14
    THEN [ret |-> FALSE, h |-> h, xp |-> xp]
    ELSE [ret |-> TRUE,
          h |-> [h EXCEPT !.devs[xp].pad_state =
                    PadFrom(xd, MapDigital(Word(xd, 2), WiredBits, 1), xd[4], xd[5], 6)],
          xp |-> xp]

\* the tail of the wireless case, once a record is known: chatpad re-init flag,
\* pad event, chatpad report
ParseWirelessTail(h, xp) ==
    LET xd == h.xdata
        d0 == h.devs[xp]
        d1 == IF xd[1] = 248 THEN [d0 EXCEPT !.chatpad_initialised = 0] ELSE d0
        d2 == IF BitAnd(xd[1], 1) # 0 /\ xd[5] = 19 /\ XDATA_SIZE >= 18
              THEN [d1 EXCEPT !.pad_state =
                       PadFrom(xd, MapDigital(Word(xd, 6), WirelessBits, 1), xd[8], xd[9], 10)]
              ELSE d1
        d3 == IF BitAnd(xd[1], 2) # 0 /\ xd[24] = 0 /\ XDATA_SIZE >= 28
              THEN [d2 EXCEPT !.chatpad_state = [i \in 0..2 |-> xd[25 + i]]]
              ELSE d2
        d4 == IF BitAnd(xd[1], 2) # 0 /\ xd[24] = 240 /\ XDATA_SIZE >= 27
              THEN LET e1 == IF xd[25] = 3 THEN [d3 EXCEPT !.chatpad_initialised = 0] ELSE d3
                   IN IF xd[25] = 4 /\ BitAnd(xd[26], 128) # 0
                      THEN [e1 EXCEPT !.chatpad_led_actual = BitAnd(xd[26], 127)]
                      ELSE e1
              ELSE d3
    IN [ret |-> TRUE, h |-> [h EXCEPT !.devs[xp] = d4], xp |-> xp]

ParseWireless(h, xp, ep_in, bAddress, t) ==
    IF XDATA_SIZE < 27 THEN [ret |-> FALSE, h |-> h, xp |-> xp]
    ELSE IF BitAnd(h.xdata[0], 8) # 0 /\ h.xdata[1] # 0 /\ xp = NoDevice
    THEN LET a == alloc_xinput_device(h, bAddress, 0, ep_in, ep_in + 1,
                                      XBOX360_WIRELESS, t)
         IN IF a.idx = NoDevice THEN [ret |-> FALSE, h |-> a.h, xp |-> xp]
            ELSE ParseWirelessTail(a.h, a.idx)
    ELSE IF BitAnd(h.xdata[0], 8) # 0 /\ h.xdata[1] = 0 /\ xp # NoDevice
    THEN [ret |-> FALSE, h |-> free_xinput_device(h, xp), xp |-> NoDevice]
    ELSE IF xp = NoDevice THEN [ret |-> FALSE, h |-> h, xp |-> xp]
    ELSE ParseWirelessTail(h, xp)

ParseXboxOne(h, xp) ==
    LET xd == h.xdata IN
    IF xd[0] # 32 \/ XDATA_SIZE < 18 THEN [ret |-> FALSE, h |-> h, xp |-> xp]
    ELSE [ret |-> TRUE,
          h |-> [h EXCEPT !.devs[xp].pad_state =
                    PadFrom(xd, MapDigital(Word(xd, 4), XboxOneBits, 1),
                            U8(Word(xd, 6) \div 4), U8(Word(xd, 8) \div 4), 10)],
          xp |-> xp]

ParseXboxOG(h, xp) ==
    LET xd == h.xdata IN
    IF xd[1] # 20 \/ XDATA_SIZE < 20 THEN [ret |-> FALSE, h |-> h, xp |-> xp]
    ELSE [ret |-> TRUE,
          h |-> [h EXCEPT !.devs[xp].pad_state =
                    PadFrom(xd, BitOr(MapDigital(Word(xd, 2), XboxOGBits, 1),
                                      MapAnalog(xd, XboxOGAnalog, 1)),
                            xd[10], xd[11], 12)],
          xp |-> xp]

\* the class instance's dev_type and bAddress are cls.dev_type and cls.bAddress;
\* xp is the record the endpoint belongs to (NoDevice for none); returns [ret, h, xp]
ParseInputData(h, xp, ep_in, cls, t) ==
    LET _dev_type == IF cls.dev_type = XBOX360_WIRELESS THEN cls.dev_type
                     ELSE IF xp # NoDevice THEN h.devs[xp].type ELSE XINPUT_UNKNOWN
    IN CASE _dev_type = XINPUT_UNKNOWN -> [ret |-> FALSE, h |-> h, xp |-> xp]
         [] _dev_type = XBOX360_WIRED -> ParseWired(h, xp)
         [] _dev_type = XBOX360_WIRELESS -> ParseWireless(h, xp, ep_in, cls.bAddress, t)
         [] _dev_type = XBOXONE -> ParseXboxOne(h, xp)
         [] _dev_type = XBOXOG -> ParseXboxOG(h, xp)
         [] _dev_type = XINPUT_KEYBOARD -> [ret |-> TRUE, h |-> h, xp |-> xp]
         [] _dev_type = XINPUT_MOUSE -> [ret |-> TRUE, h |-> h, xp |-> xp]
         [] OTHER -> [ret |-> FALSE, h |-> h, xp |-> xp]

----------------------------------------------------------------------------
(* main.h, usbd_xid.h: the console-side report structures *)

MAX_GAMEPADS == 4
SB_DEFAULT_SENSITIVITY == 400

\* xid_type_t
DISCONNECTED == 0
DUKE == 1
STEELBATTALION == 2

\* sizeof the four packed report structures
SIZEOF_DUKE_IN == 20
SIZEOF_DUKE_OUT == 6
SIZEOF_SB_IN == 26
SIZEOF_SB_OUT == 22

DUKE_DUP == 1
DUKE_DDOWN == 2
DUKE_DLEFT == 4
DUKE_DRIGHT == 8
DUKE_START == 16
DUKE_BACK == 32
DUKE_LS == 64
DUKE_RS == 128

SBC_W0_RIGHTJOYMAINWEAPON == 1
SBC_W0_RIGHTJOYFIRE == 2
SBC_W0_RIGHTJOYLOCKON == 4
SBC_W0_EJECT == 8
SBC_W0_COCKPITHATCH == 16
SBC_W0_IGNITION == 32
SBC_W0_START == 64
SBC_W0_MULTIMONOPENCLOSE == 128
SBC_W0_MULTIMONMAPZOOMINOUT == 256
SBC_W0_MULTIMONMODESELECT == 512
SBC_W0_MULTIMONSUBMONITOR == 1024
SBC_W0_MAINMONZOOMIN == 2048
SBC_W0_MAINMONZOOMOUT == 4096
SBC_W0_FUNCTIONFSS == 8192
SBC_W0_FUNCTIONMANIPULATOR == 16384
SBC_W0_FUNCTIONLINECOLORCHANGE == 32768
SBC_W1_WASHING == 1
SBC_W1_EXTINGUISHER == 2
SBC_W1_CHAFF == 4
SBC_W1_FUNCTIONTANKDETACH == 8
SBC_W1_FUNCTIONOVERRIDE == 16
SBC_W1_FUNCTIONNIGHTSCOPE == 32
SBC_W1_FUNCTIONF1 == 64
SBC_W1_FUNCTIONF2 == 128
SBC_W1_FUNCTIONF3 == 256
SBC_W1_WEAPONCONMAIN == 512
SBC_W1_WEAPONCONSUB == 1024
SBC_W1_WEAPONCONMAGAZINE == 2048
SBC_W1_COMM1 == 4096
SBC_W1_COMM2 == 8192
SBC_W1_COMM3 == 16384
SBC_W1_COMM4 == 32768
SBC_W2_COMM5 == 1
SBC_W2_LEFTJOYSIGHTCHANGE == 2
SBC_W2_TOGGLEFILTERCONTROL == 4
SBC_W2_TOGGLEOXYGENSUPPLY == 8
SBC_W2_TOGGLEFUELFLOWRATE == 16
SBC_W2_TOGGLEBUFFREMATERIAL == 32
SBC_W2_TOGGLEVTLOCATION == 64

SBC_GEAR_R == 7
SBC_GEAR_N == 8
SBC_GEAR_5 == 13
SBC_AIMING_MID == 32768

\* byte offsets of the out-report fields the mapping reads
OFF_DUKE_OUT_LVALUE == 2
OFF_SB_OUT_COCKPITHATCH_EMERGENCYEJECT == 2
OFF_SB_OUT_WASHING_LINECOLORCHANGE == 8
OFF_SB_OUT_CHAFF_EXTINGUISHER == 9
OFF_SB_OUT_COMM1_MAGAZINECHANGE == 14

\* usbd_duke_in_t after memset 0
ZeroDukeIn ==
    [startByte |-> 0, bLength |-> 0, wButtons |-> 0,
     A |-> 0, B |-> 0, X |-> 0, Y |-> 0, BLACK |-> 0, WHITE |-> 0, L |-> 0, R |-> 0,
     leftStickX |-> 0, leftStickY |-> 0, rightStickX |-> 0, rightStickY |-> 0]

\* usbd_sbattalion_in_t after memset 0
ZeroSbIn ==
    [startByte |-> 0, bLength |-> 0, wButtons |-> Zeros(3),
     aimingX |-> 0, aimingY |-> 0, rotationLever |-> 0,
     sightChangeX |-> 0, sightChangeY |-> 0,
     leftPedal |-> 0, middlePedal |-> 0, rightPedal |-> 0,
     tunerDial |-> 0, gearLever |-> 0]

\* the out reports are kept as their bytes; byte 1 is bLength
OutReport(size) == [i \in 0..(size - 1) |-> IF i = 1 THEN size ELSE 0]

\* main.cpp setup(): one usbd_controller_t
SetupController ==
    [type |-> DUKE,
     duke |-> [in |-> [ZeroDukeIn EXCEPT !.bLength = SIZEOF_DUKE_IN],
               out |-> OutReport(SIZEOF_DUKE_OUT)],
     sb |-> [in |-> [ZeroSbIn EXCEPT !.bLength = SIZEOF_SB_IN],
             out |-> OutReport(SIZEOF_SB_OUT)]]

\* xinput_user_data_t, zero-initialised
ZeroUserData == [modifiers |-> 0, button_hold_timer |-> 0, vmouse_x |-> 0, vmouse_y |-> 0]

\* the low and high byte of a 16-bit pattern
Lo(v) == U16(v) % 256
Hi(v) == U16(v) \div 256

\* the bytes of the packed usbd_duke_in_t
DukeInBytes(r) ==
    <<r.startByte, r.bLength, Lo(r.wButtons), Hi(r.wButtons),
      r.A, r.B, r.X, r.Y, r.BLACK, r.WHITE, r.L, r.R,
      Lo(r.leftStickX), Hi(r.leftStickX), Lo(r.leftStickY), Hi(r.leftStickY),
      Lo(r.rightStickX), Hi(r.rightStickX), Lo(r.rightStickY), Hi(r.rightStickY)>>

\* the bytes of the packed usbd_sbattalion_in_t
SbInBytes(r) ==
    <<r.startByte, r.bLength,
      Lo(r.wButtons[0]), Hi(r.wButtons[0]), Lo(r.wButtons[1]), Hi(r.wButtons[1]),
      Lo(r.wButtons[2]), Hi(r.wButtons[2]),
      Lo(r.aimingX), Hi(r.aimingX), Lo(r.aimingY), Hi(r.aimingY),
      Lo(r.rotationLever), Hi(r.rotationLever),
      Lo(r.sightChangeX), Hi(r.sightChangeX), Lo(r.sightChangeY), Hi(r.sightChangeY),
      Lo(r.leftPedal), Hi(r.leftPedal), Lo(r.middlePedal), Hi(r.middlePedal),
      Lo(r.rightPedal), Hi(r.rightPedal), U8(r.tunerDial), U8(r.gearLever)>>

----------------------------------------------------------------------------
(* master.cpp: handle_duke *)

XINPUT_MOD_RSX_INVERT == 1
XINPUT_MOD_RSY_INVERT == 2

\* `a || b` over two was-pressed queries: b is asked only when a returned 0
WasEitherGamepadPressed(x, m1, m2) ==
    LET q1 == usbh_xinput_was_gamepad_pressed(x, m1) IN
    IF q1.ret # 0 THEN q1 ELSE usbh_xinput_was_gamepad_pressed(q1.x, m2)

\* handle_duke leaving the face buttons out of the report
handle_duke_NoFaceButtons(x, duke, ud) ==
    [x |-> x, ud |-> ud,
     duke_in |-> [ZeroDukeIn EXCEPT !.bLength = SIZEOF_DUKE_IN,
                                    !.leftStickX = x.pad_state.sThumbLX,
                                    !.leftStickY = x.pad_state.sThumbLY]]

\* returns [x, duke_in, ud]
handle_duke(x, duke, ud) ==
    LET st == x.pad_state
        Has(m) == BitAnd(st.wButtons, m) # 0
        wb == BitOr(IF Has(XINPUT_GAMEPAD_DPAD_UP) THEN DUKE_DUP ELSE 0,
              BitOr(IF Has(XINPUT_GAMEPAD_DPAD_DOWN) THEN DUKE_DDOWN ELSE 0,
              BitOr(IF Has(XINPUT_GAMEPAD_DPAD_LEFT) THEN DUKE_DLEFT ELSE 0,
              BitOr(IF Has(XINPUT_GAMEPAD_DPAD_RIGHT) THEN DUKE_DRIGHT ELSE 0,
              BitOr(IF Has(XINPUT_GAMEPAD_START) THEN DUKE_START ELSE 0,
              BitOr(IF Has(XINPUT_GAMEPAD_BACK) THEN DUKE_BACK ELSE 0,
              BitOr(IF Has(XINPUT_GAMEPAD_LEFT_THUMB) THEN DUKE_LS ELSE 0,
                    IF Has(XINPUT_GAMEPAD_RIGHT_THUMB) THEN DUKE_RS ELSE 0)))))))
        in1 == [startByte |-> 0, bLength |-> SIZEOF_DUKE_IN, wButtons |-> wb,
                A |-> IF Has(XINPUT_GAMEPAD_A) THEN 255 ELSE 0,
                B |-> IF Has(XINPUT_GAMEPAD_B) THEN 255 ELSE 0,
                X |-> IF Has(XINPUT_GAMEPAD_X) THEN 255 ELSE 0,
                Y |-> IF Has(XINPUT_GAMEPAD_Y) THEN 255 ELSE 0,
                BLACK |-> IF Has(XINPUT_GAMEPAD_RIGHT_SHOULDER) THEN 255 ELSE 0,
                WHITE |-> IF Has(XINPUT_GAMEPAD_LEFT_SHOULDER) THEN 255 ELSE 0,
                L |-> st.bLeftTrigger, R |-> st.bRightTrigger,
                leftStickX |-> st.sThumbLX, leftStickY |-> st.sThumbLY,
                rightStickX |-> IF BitAnd(ud.modifiers, XINPUT_MOD_RSX_INVERT) # 0
                                THEN S16(-st.sThumbRX - 1) ELSE st.sThumbRX,
                rightStickY |-> IF BitAnd(ud.modifiers, XINPUT_MOD_RSY_INVERT) # 0
                                THEN S16(-st.sThumbRY - 1) ELSE st.sThumbRY]
        lv == U8(Word(duke.out, OFF_DUKE_OUT_LVALUE) \div 256)
        x1 == [x EXCEPT !.chatpad_led_requested = XINPUT_CHATPAD_GREEN,
                        !.lValue_requested = lv, !.rValue_requested = lv]
    IN IF Has(XINPUT_GAMEPAD_RIGHT_THUMB)
       THEN LET qy == WasEitherGamepadPressed(x1, XINPUT_GAMEPAD_DPAD_UP,
                                              XINPUT_GAMEPAD_DPAD_DOWN)
                m1 == IF qy.ret # 0 THEN BitXor(ud.modifiers, XINPUT_MOD_RSY_INVERT)
                      ELSE ud.modifiers
                qx == WasEitherGamepadPressed(qy.x, XINPUT_GAMEPAD_DPAD_RIGHT,
                                              XINPUT_GAMEPAD_DPAD_LEFT)
                m2 == IF qx.ret # 0 THEN BitXor(m1, XINPUT_MOD_RSX_INVERT) ELSE m1
            IN [x |-> qx.x, duke_in |-> in1, ud |-> [ud EXCEPT !.modifiers = m2]]
       ELSE [x |-> x1, duke_in |-> in1, ud |-> ud]

----------------------------------------------------------------------------
(* master.cpp: the cockpit mapping tables and handle_sbattalion *)

\* each row is <<xinput_mask, sb_mask, sb_word_offset>>
sb_pad_map ==
    << <<XINPUT_GAMEPAD_START, SBC_W0_START, 0>>,
       <<XINPUT_GAMEPAD_LEFT_SHOULDER, SBC_W0_RIGHTJOYFIRE, 0>>,
       <<XINPUT_GAMEPAD_RIGHT_THUMB, SBC_W0_RIGHTJOYLOCKON, 0>>,
       <<XINPUT_GAMEPAD_B, SBC_W0_RIGHTJOYLOCKON, 0>>,
       <<XINPUT_GAMEPAD_RIGHT_SHOULDER, SBC_W0_RIGHTJOYMAINWEAPON, 0>>,
       <<XINPUT_GAMEPAD_A, SBC_W0_RIGHTJOYMAINWEAPON, 0>>,
       <<XINPUT_GAMEPAD_XBOX_BUTTON, SBC_W0_EJECT, 0>>,
       <<XINPUT_GAMEPAD_LEFT_THUMB, SBC_W2_LEFTJOYSIGHTCHANGE, 2>>,
       <<XINPUT_GAMEPAD_Y, SBC_W1_CHAFF, 1>> >>

sb_chatpad_map ==
    << <<XINPUT_CHATPAD_0, SBC_W0_EJECT, 0>>,
       <<XINPUT_CHATPAD_D, SBC_W1_WASHING, 1>>,
       <<XINPUT_CHATPAD_F, SBC_W1_EXTINGUISHER, 1>>,
       <<XINPUT_CHATPAD_G, SBC_W1_CHAFF, 1>>,
       <<XINPUT_CHATPAD_X, SBC_W1_WEAPONCONMAIN, 1>>,
       <<XINPUT_CHATPAD_RIGHT, SBC_W1_WEAPONCONMAIN, 1>>,
       <<XINPUT_CHATPAD_C, SBC_W1_WEAPONCONSUB, 1>>,
       <<XINPUT_CHATPAD_LEFT, SBC_W1_WEAPONCONSUB, 1>>,
       <<XINPUT_CHATPAD_V, SBC_W1_WEAPONCONMAGAZINE, 1>>,
       <<XINPUT_CHATPAD_SPACE, SBC_W1_WEAPONCONMAGAZINE, 1>>,
       <<XINPUT_CHATPAD_U, SBC_W0_MULTIMONOPENCLOSE, 0>>,
       <<XINPUT_CHATPAD_J, SBC_W0_MULTIMONMODESELECT, 0>>,
       <<XINPUT_CHATPAD_N, SBC_W0_MAINMONZOOMIN, 0>>,
       <<XINPUT_CHATPAD_I, SBC_W0_MULTIMONMAPZOOMINOUT, 0>>,
       <<XINPUT_CHATPAD_K, SBC_W0_MULTIMONSUBMONITOR, 0>>,
       <<XINPUT_CHATPAD_M, SBC_W0_MAINMONZOOMOUT, 0>>,
       <<XINPUT_CHATPAD_ENTER, SBC_W0_START, 0>>,
       <<XINPUT_CHATPAD_P, SBC_W0_COCKPITHATCH, 0>>,
       <<XINPUT_CHATPAD_COMMA, SBC_W0_IGNITION, 0>> >>

sb_chatpad_alt1_map ==
    << <<XINPUT_CHATPAD_1, SBC_W1_COMM1, 1>>,
       <<XINPUT_CHATPAD_2, SBC_W1_COMM2, 1>>,
       <<XINPUT_CHATPAD_3, SBC_W1_COMM3, 1>>,
       <<XINPUT_CHATPAD_4, SBC_W1_COMM4, 1>>,
       <<XINPUT_CHATPAD_5, SBC_W2_COMM5, 2>> >>

sb_chatpad_alt2_map ==
    << <<XINPUT_CHATPAD_1, SBC_W1_FUNCTIONF1, 1>>,
       <<XINPUT_CHATPAD_2, SBC_W1_FUNCTIONTANKDETACH, 1>>,
       <<XINPUT_CHATPAD_3, SBC_W0_FUNCTIONFSS, 0>>,
       <<XINPUT_CHATPAD_4, SBC_W1_FUNCTIONF2, 1>>,
       <<XINPUT_CHATPAD_5, SBC_W1_FUNCTIONOVERRIDE, 1>>,
       <<XINPUT_CHATPAD_6, SBC_W0_FUNCTIONMANIPULATOR, 0>>,
       <<XINPUT_CHATPAD_7, SBC_W1_FUNCTIONF3, 1>>,
       <<XINPUT_CHATPAD_8, SBC_W1_FUNCTIONNIGHTSCOPE, 1>>,
       <<XINPUT_CHATPAD_9, SBC_W0_FUNCTIONLINECOLORCHANGE, 0>> >>

sb_chatpad_toggle_map ==
    << <<XINPUT_CHATPAD_Q, SBC_W2_TOGGLEOXYGENSUPPLY, 2>>,
       <<XINPUT_CHATPAD_A, SBC_W2_TOGGLEFILTERCONTROL, 2>>,
       <<XINPUT_CHATPAD_W, SBC_W2_TOGGLEVTLOCATION, 2>>,
       <<XINPUT_CHATPAD_S, SBC_W2_TOGGLEBUFFREMATERIAL, 2>>,
       <<XINPUT_CHATPAD_Z, SBC_W2_TOGGLEFUELFLOWRATE, 2>> >>

sensitivities == <<1200, 1000, 800, 650, 400, 350, 300, 250, 200>>

DEADZONE == 7500
UINT16_MAX == 65535
HOLD_MS == 500
SHIFT_FLIP_MASK == 65532

\* the loop "if (wButtons & xinput_mask) in.wButtons[offset] |= sb_mask", rows k..
RECURSIVE ApplyPadMap(_, _, _, _)
ApplyPadMap(w, wButtons, table, k) ==
    IF k > Len(table) THEN w
    ELSE LET row == table[k]
             w1 == IF BitAnd(wButtons, row[1]) # 0
                   THEN [w EXCEPT ![row[3]] = BitOr(w[row[3]], row[2])] ELSE w
         IN ApplyPadMap(w1, wButtons, table, k + 1)

\* the loop "if (is_chatpad_pressed(code)) in.wButtons[offset] |= sb_mask", rows k..
RECURSIVE ApplyChatpadMap(_, _, _, _)
ApplyChatpadMap(w, x, table, k) ==
    IF k > Len(table) THEN w
    ELSE LET row == table[k]
             w1 == IF usbh_xinput_is_chatpad_pressed(x, row[1]) # 0
                   THEN [w EXCEPT ![row[3]] = BitOr(w[row[3]], row[2])] ELSE w
         IN ApplyChatpadMap(w1, x, table, k + 1)

\* the loop "if (was_chatpad_pressed(code)) in.wButtons[offset] ^= sb_mask", rows k..
\* returns [w, x]
RECURSIVE ApplyToggleMap(_, _, _, _)
ApplyToggleMap(w, x, table, k) ==
    IF k > Len(table) THEN [w |-> w, x |-> x]
    ELSE LET row == table[k]
             q == usbh_xinput_was_chatpad_pressed(x, row[1])
             w1 == IF q.ret # 0
                   THEN [w EXCEPT ![row[3]] = BitXor(w[row[3]], row[2])] ELSE w
         IN ApplyToggleMap(w1, q.x, table, k + 1)

\* the sensitivity loop from index i on: returns [x, sens, ee]
RECURSIVE SelectSensitivity(_, _, _, _)
SelectSensitivity(x, sens, ee, i) ==
    IF i >= Len(sensitivities) THEN [x |-> x, sens |-> sens, ee |-> ee]
    ELSE LET q == usbh_xinput_was_chatpad_pressed(x, XINPUT_CHATPAD_1 + i) IN
         IF q.ret # 0
         THEN LET new_sensitivity == sensitivities[i + 1] IN
              IF sens # new_sensitivity
              THEN [x |-> q.x, sens |-> new_sensitivity,
                    ee |-> [ee EXCEPT !.sensitivity = new_sensitivity,
                                      !.writes = IF @ < 2 THEN @ + 1 ELSE @]]
              ELSE [x |-> q.x, sens |-> sens, ee |-> ee]
         ELSE SelectSensitivity(q.x, sens, ee, i + 1)

\* TunerBranch with the dial wrapping round at both ends instead of constrain()
TunerBranch_Wraps(x, in0) ==
    LET w1 == ApplyChatpadMap(in0.wButtons, x, sb_chatpad_alt1_map, 1)
        qu == WasEitherGamepadPressed(x, XINPUT_GAMEPAD_DPAD_UP, XINPUT_GAMEPAD_DPAD_RIGHT)
        d1 == IF qu.ret # 0 THEN S8(in0.tunerDial + 1) ELSE in0.tunerDial
        qd == WasEitherGamepadPressed(qu.x, XINPUT_GAMEPAD_DPAD_DOWN, XINPUT_GAMEPAD_DPAD_LEFT)
        d2 == IF qd.ret # 0 THEN S8(d1 - 1) ELSE d1
    IN [x |-> qd.x,
        sb_in |-> [in0 EXCEPT !.wButtons = w1,
                              !.tunerDial = IF d2 > 15 THEN 0 ELSE IF d2 < 0 THEN 15 ELSE d2]]

\* the tuner-dial branch (messenger or BACK held): returns [x, sb_in].  tunerDial and
\* gearLever are the two int8_t fields that close the cockpit in report
TunerBranch(x, in0) ==
    LET w1 == ApplyChatpadMap(in0.wButtons, x, sb_chatpad_alt1_map, 1)
        qu == WasEitherGamepadPressed(x, XINPUT_GAMEPAD_DPAD_UP, XINPUT_GAMEPAD_DPAD_RIGHT)
        d1 == IF qu.ret # 0 THEN S8(in0.tunerDial + 1) ELSE in0.tunerDial
        qd == WasEitherGamepadPressed(qu.x, XINPUT_GAMEPAD_DPAD_DOWN, XINPUT_GAMEPAD_DPAD_LEFT)
        d2 == IF qd.ret # 0 THEN S8(d1 - 1) ELSE d1
    IN [x |-> qd.x,
        sb_in |-> [in0 EXCEPT !.wButtons = w1, !.tunerDial = constrain(d2, 0, 15)]]

\* the default branch (no messenger, no BACK, no orange): returns [x, sb_in]
GearBranch(x, in0) ==
    LET w1 == ApplyChatpadMap(in0.wButtons, x, sb_chatpad_alt2_map, 1)
        in1 == [in0 EXCEPT !.wButtons = w1]
    IN IF BitAnd(x.pad_state.wButtons,
                 XINPUT_GAMEPAD_DPAD_LEFT + XINPUT_GAMEPAD_DPAD_RIGHT) = 0
       THEN LET qu == usbh_xinput_was_gamepad_pressed(x, XINPUT_GAMEPAD_DPAD_UP)
                g1 == IF qu.ret # 0 THEN S8(in1.gearLever + 1) ELSE in1.gearLever
                qd == usbh_xinput_was_gamepad_pressed(qu.x, XINPUT_GAMEPAD_DPAD_DOWN)
                g2 == IF qd.ret # 0 THEN S8(g1 - 1) ELSE g1
            IN [x |-> qd.x,
                sb_in |-> [in1 EXCEPT !.gearLever = constrain(g2, SBC_GEAR_R, SBC_GEAR_5)]]
       ELSE [x |-> x, sb_in |-> in1]

\* AimingStep without the constrain() calls and without the recentre
AimingStep_Unconstrained(st, ud, sens, t) ==
    LET vx1 == IF Abs(st.sThumbRX) > DEADZONE
               THEN ud.vmouse_x + CDiv(st.sThumbRX, sens) ELSE ud.vmouse_x
        vy1 == IF Abs(st.sThumbRY) > DEADZONE
               THEN ud.vmouse_y - CDiv(st.sThumbRY, sens) ELSE ud.vmouse_y
    IN IF BitAnd(st.wButtons, XINPUT_GAMEPAD_LEFT_THUMB) # 0
       THEN [ud EXCEPT !.vmouse_x = vx1, !.vmouse_y = vy1]
       ELSE [ud EXCEPT !.vmouse_x = vx1, !.vmouse_y = vy1, !.button_hold_timer = t]

\* IgnitionClamp that zeroes the aiming fields but leaves the hatch bit
IgnitionClamp_KeepsHatch(in0) ==
    IF BitAnd(in0.wButtons[0], SBC_W0_IGNITION) # 0
    THEN [in0 EXCEPT !.aimingX = 0, !.aimingY = 0]
    ELSE in0

\* the virtual-mouse integration and the recentre hold: returns ud
AimingStep(st, ud, sens, t) ==
    LET vx1 == IF Abs(st.sThumbRX) > DEADZONE
               THEN ud.vmouse_x + CDiv(st.sThumbRX, sens) ELSE ud.vmouse_x
        vy1 == IF Abs(st.sThumbRY) > DEADZONE
               THEN ud.vmouse_y - CDiv(st.sThumbRY, sens) ELSE ud.vmouse_y
        vx2 == constrain(vx1, 0, UINT16_MAX)
        vy2 == constrain(vy1, 0, UINT16_MAX)
    IN IF BitAnd(st.wButtons, XINPUT_GAMEPAD_LEFT_THUMB) # 0
       THEN IF Elapsed(t, ud.button_hold_timer) > HOLD_MS
            THEN [ud EXCEPT !.vmouse_x = SBC_AIMING_MID, !.vmouse_y = SBC_AIMING_MID]
            ELSE [ud EXCEPT !.vmouse_x = vx2, !.vmouse_y = vy2]
       ELSE [ud EXCEPT !.vmouse_x = vx2, !.vmouse_y = vy2, !.button_hold_timer = t]

\* the final ignition clamp
IgnitionClamp(in0) ==
    IF BitAnd(in0.wButtons[0], SBC_W0_IGNITION) # 0
    THEN [in0 EXCEPT !.aimingX = 0, !.aimingY = 0,
                     !.wButtons[0] = BitClear(@, SBC_W0_COCKPITHATCH)]
    ELSE in0

\* The stages of handle_sbattalion.  Each takes what the statements before it have
\* left (b: the record x and the in report sb_in) and the call's unchanged inputs
\* (st: the pad state, xin0: the record as passed, out: the out report).

\* the three table loops: returns [w, x] (the button words, the record)
SbMaps(x, sb) ==
    ApplyToggleMap(
        ApplyChatpadMap(
            ApplyPadMap([sb.in.wButtons EXCEPT ![0] = 0, ![1] = 0],
                        x.pad_state.wButtons, sb_pad_map, 1),
            x, sb_chatpad_map, 1),
        x, sb_chatpad_toggle_map, 1)

\* the X-button combinations with the console's LED feedback: returns [x, sb_in]
SbFeedback(tg, st, sb) ==
    LET Has(m) == BitAnd(st.wButtons, m) # 0
        out == sb.out
        xw == BitOr(IF Has(XINPUT_GAMEPAD_X) /\ BitAnd(out[OFF_SB_OUT_CHAFF_EXTINGUISHER], 15) # 0
                    THEN SBC_W1_EXTINGUISHER ELSE 0,
              BitOr(IF Has(XINPUT_GAMEPAD_X) /\ BitAnd(out[OFF_SB_OUT_COMM1_MAGAZINECHANGE], 15) # 0
                    THEN SBC_W1_WEAPONCONMAGAZINE ELSE 0,
                    IF Has(XINPUT_GAMEPAD_X) /\ BitAnd(out[OFF_SB_OUT_WASHING_LINECOLORCHANGE], 240) # 0
                    THEN SBC_W1_WASHING ELSE 0))
    IN [x |-> tg.x,
        sb_in |-> [sb.in EXCEPT !.startByte = 0, !.bLength = SIZEOF_SB_IN,
                                !.wButtons = [tg.w EXCEPT ![1] = BitOr(@, xw)]]]

\* the tuner-dial branch, the gear-lever branch or neither: returns [x, sb_in]
SbBranch(b, xin0) ==
    IF usbh_xinput_is_chatpad_pressed(xin0, XINPUT_CHATPAD_MESSENGER) # 0
       \/ BitAnd(xin0.pad_state.wButtons, XINPUT_GAMEPAD_BACK) # 0
    THEN TunerBranch(b.x, b.sb_in)
    ELSE IF usbh_xinput_is_chatpad_pressed(xin0, XINPUT_CHATPAD_ORANGE) = 0
    THEN GearBranch(b.x, b.sb_in)
    ELSE b

\* the shift edge, sh being what usbh_xinput_was_chatpad_pressed returns for it:
\* returns [x, sb_in]
SbShift(b, sh) ==
    [x |-> sh.x,
     sb_in |-> IF sh.ret # 0
               THEN [b.sb_in EXCEPT !.wButtons[2] = BitXor(@, SHIFT_FLIP_MASK)]
               ELSE b.sb_in]

\* pedals, rotation lever, sight change, aiming (ud1 being the user data after the
\* aiming step) and the rumble request: returns [x, sb_in, ud]
SbAxes(b, xin0, out, ud1) ==
    LET st == xin0.pad_state
        Has(m) == BitAnd(st.wButtons, m) # 0
        Chat(c) == usbh_xinput_is_chatpad_pressed(xin0, c) # 0
        lv == U8(BitOr(out[OFF_SB_OUT_CHAFF_EXTINGUISHER],
                 BitOr(out[OFF_SB_OUT_CHAFF_EXTINGUISHER] * 16,
                 BitOr(out[OFF_SB_OUT_COMM1_MAGAZINECHANGE] * 16,
                       out[OFF_SB_OUT_COCKPITHATCH_EMERGENCYEJECT] * 16))))
    IN [x |-> [b.x EXCEPT !.lValue_requested = lv, !.rValue_requested = lv],
        sb_in |-> [b.sb_in EXCEPT
                   !.leftPedal = U16(st.bLeftTrigger * 256),
                   !.rightPedal = U16(st.bRightTrigger * 256),
                   !.middlePedal = IF Chat(XINPUT_CHATPAD_BACK) THEN 65280 ELSE 0,
                   !.rotationLever = IF Chat(XINPUT_CHATPAD_MESSENGER) THEN 0
                                     ELSE IF Has(XINPUT_GAMEPAD_BACK) THEN 0
                                     ELSE IF Has(XINPUT_GAMEPAD_DPAD_LEFT) THEN -32768
                                     ELSE IF Has(XINPUT_GAMEPAD_DPAD_RIGHT) THEN 32767
                                     ELSE 0,
                   !.sightChangeX = st.sThumbLX,
                   !.sightChangeY = S16(-st.sThumbLY - 1),
                   !.aimingX = U16(ud1.vmouse_x),
                   !.aimingY = U16(ud1.vmouse_y)],
        ud |-> ud1]

\* the sensitivity selection while orange is held: returns [x, sens, ee]
SbSensitivity(x1, xin0, sens, ee) ==
    IF usbh_xinput_is_chatpad_pressed(xin0, XINPUT_CHATPAD_ORANGE) # 0
    THEN SelectSensitivity(x1, sens, ee, 0)
    ELSE [x |-> x1, sens |-> sens, ee |-> ee]

\* the result of the call, from the report and user data of SbAxes and the record and
\* preset of SbSensitivity: returns [x, sb_in, ud, sens, ee]
SbResult(b, sn) ==
    [x |-> sn.x, sb_in |-> IgnitionClamp(b.sb_in), ud |-> b.ud,
     sens |-> sn.sens, ee |-> sn.ee]

\* SbResult with the record taken from the report stage b
SbFinish(b, xin0, sens, ee) == SbResult(b, SbSensitivity(b.x, xin0, sens, ee))

\* SbShift with the edge query made on the record of stage b
SbShiftOf(b) == SbShift(b, usbh_xinput_was_chatpad_pressed(b.x, XINPUT_CHATPAD_SHIFT))

\* returns [x, sb_in, ud, sens, ee]
handle_sbattalion(x, sb, ud, sens, ee, t) ==
    SbFinish(SbAxes(SbShiftOf(SbBranch(SbFeedback(SbMaps(x, sb), x.pad_state, sb), x)),
                    x, sb.out, AimingStep(x.pad_state, ud, sens, t)),
             x, sens, ee)

----------------------------------------------------------------------------
(* usbd_xid.cpp: the console-facing XID emulation *)

\* sizeof(xid_in_data) = sizeof(xid_out_data)
XID_BUF_SIZE == 32
\* the staleness window of getReport, in ms
XID_EXPIRY_MS == 500

\* the XID_ object after its constructor
XidConstructed ==
    [xid_type |-> DUKE, xid_in_data |-> Zeros(XID_BUF_SIZE),
     xid_out_data |-> Zeros(XID_BUF_SIZE), xid_out_expired |-> 0]

\* memcmp(buf, data, n) != 0, data being a sequence of at least n bytes
Differs(buf, data, n) == \E i \in 0..(n - 1) : buf[i] # data[i + 1]

\* sendReport without the comparison against the local copy: every call transmits
sendReport_AlwaysSends(x, data, len, usb_ok) ==
    LET capped_len == MIN(len, XID_BUF_SIZE)
        buf == [i \in 0..(XID_BUF_SIZE - 1) |->
                   IF i < capped_len THEN data[i + 1] ELSE x.xid_in_data[i]]
    IN [ret |-> IF usb_ok THEN capped_len ELSE -1, x |-> [x EXCEPT !.xid_in_data = buf],
        attempted |-> TRUE, tx |-> IF usb_ok THEN capped_len ELSE 0]

\* data: the caller's bytes as a sequence; usb_ok: whether USB_Send delivers.
\* returns [ret, x, attempted, tx]: the return value, the object, whether USB_Send
\* was called and how many bytes it put on the endpoint
sendReport(x, data, len, usb_ok) ==
    LET capped_len == MIN(len, XID_BUF_SIZE) IN
    IF Differs(x.xid_in_data, data, capped_len)
    THEN LET buf == [i \in 0..(XID_BUF_SIZE - 1) |->
                        IF i < capped_len THEN data[i + 1] ELSE x.xid_in_data[i]]
             sent_len == IF usb_ok THEN capped_len ELSE -1
         IN [ret |-> sent_len, x |-> [x EXCEPT !.xid_in_data = buf],
             attempted |-> TRUE, tx |-> IF usb_ok THEN capped_len ELSE 0]
    ELSE [ret |-> capped_len, x |-> x, attempted |-> FALSE, tx |-> 0]

\* getReport with the cached report expiring at 500 ms already (>= for >)
getReport_ExpiresAt500(x, data, len, recv, t) ==
    LET capped_len == MIN(len, XID_BUF_SIZE) IN
    IF recv.len = capped_len
    THEN [ret |-> capped_len,
          data |-> [i \in DOMAIN data |-> IF i < capped_len THEN recv.r[i] ELSE data[i]],
          x |-> [x EXCEPT !.xid_out_data =
                              [i \in 0..(XID_BUF_SIZE - 1) |->
                                  IF i < capped_len THEN recv.r[i] ELSE @[i]],
                          !.xid_out_expired = t]]
    ELSE IF Elapsed(t, x.xid_out_expired) >= XID_EXPIRY_MS
    THEN [ret |-> 0,
          data |-> [i \in DOMAIN data |-> IF i < capped_len THEN 0 ELSE data[i]],
          x |-> x]
    ELSE [ret |-> x.xid_out_data[1],
          data |-> [i \in DOMAIN data |-> IF i < capped_len THEN x.xid_out_data[i]
                                          ELSE data[i]],
          x |-> x]

\* data: the caller's buffer (a function over 0..len-1); recv: what USB_Recv yields,
\* [len, r] with len = -1 for nothing received.  returns [ret, data, x]
getReport(x, data, len, recv, t) ==
    LET capped_len == MIN(len, XID_BUF_SIZE) IN
    IF recv.len = capped_len
    THEN [ret |-> capped_len,
          data |-> [i \in DOMAIN data |-> IF i < capped_len THEN recv.r[i] ELSE data[i]],
          x |-> [x EXCEPT !.xid_out_data =
                              [i \in 0..(XID_BUF_SIZE - 1) |->
                                  IF i < capped_len THEN recv.r[i] ELSE @[i]],
                          !.xid_out_expired = t]]
    ELSE IF Elapsed(t, x.xid_out_expired) > XID_EXPIRY_MS
    THEN [ret |-> 0,
          data |-> [i \in DOMAIN data |-> IF i < capped_len THEN 0 ELSE data[i]],
          x |-> x]
    ELSE [ret |-> x.xid_out_data[1],
          data |-> [i \in DOMAIN data |-> IF i < capped_len THEN x.xid_out_data[i]
                                          ELSE data[i]],
          x |-> x]

\* the control requests setup() tells apart
SetupKinds ==
    {"xid_descriptor", "capabilities_in", "capabilities_out",
     "get_report_in", "set_report_out", "other"}

\* the fields of bmRequestType and the HID requests (Arduino core)
REQUEST_HOSTTODEVICE == 0
REQUEST_DEVICETOHOST == 128
REQUEST_CLASS == 32
REQUEST_VENDOR == 64
REQUEST_INTERFACE == 1
HID_GET_REPORT == 1
HID_SET_REPORT == 9
HID_REPORT_TYPE_INPUT == 1
HID_REPORT_TYPE_OUTPUT == 2

\* which of the requests setup() tells apart the packet rq is:
\* rq is [bmRequestType, bRequest, wValueH, wValueL]
RequestKind(rq) ==
    LET wValue == rq.wValueH * 256 + rq.wValueL IN
    IF rq.bmRequestType = REQUEST_DEVICETOHOST + REQUEST_VENDOR + REQUEST_INTERFACE
    THEN IF rq.bRequest = 6 /\ wValue = 16896 THEN "xid_descriptor"
         ELSE IF rq.bRequest = 1 /\ wValue = 256 THEN "capabilities_in"
         ELSE IF rq.bRequest = 1 /\ wValue = 512 THEN "capabilities_out"
         ELSE "other"
    ELSE IF rq.bmRequestType = REQUEST_DEVICETOHOST + REQUEST_CLASS + REQUEST_INTERFACE
    THEN IF rq.bRequest = HID_GET_REPORT /\ rq.wValueH = HID_REPORT_TYPE_INPUT
         THEN "get_report_in" ELSE "other"
    ELSE IF rq.bmRequestType = REQUEST_HOSTTODEVICE + REQUEST_CLASS + REQUEST_INTERFACE
    THEN IF rq.bRequest = HID_SET_REPORT /\ rq.wValueH = HID_REPORT_TYPE_OUTPUT
         THEN "set_report_out" ELSE "other"
    ELSE "other"

\* what setup() hands to USB_SendControl
SetupSends(x, req) ==
    IF ~req.wIndexMatches THEN "nothing"
    ELSE IF req.kind = "xid_descriptor" /\ x.xid_type = DUKE THEN "DUKE_DESC_XID"
    ELSE IF req.kind = "xid_descriptor" /\ x.xid_type = STEELBATTALION
    THEN "BATTALION_DESC_XID"
    ELSE IF req.kind = "capabilities_in" THEN "DUKE_CAPABILITIES_IN"
    ELSE IF req.kind = "capabilities_out" THEN "DUKE_CAPABILITIES_OUT"
    ELSE IF req.kind = "get_report_in" THEN "xid_in_data"
    ELSE "nothing"

\* setup answering the descriptor query whatever the type is
setup_AnswersDisconnected(x, req, t) ==
    IF ~req.wIndexMatches THEN [ret |-> FALSE, x |-> x]
    ELSE IF req.kind \in {"xid_descriptor", "capabilities_in", "capabilities_out",
                          "get_report_in"}
    THEN [ret |-> TRUE, x |-> x]
    ELSE IF req.kind = "set_report_out"
    THEN LET length == MIN(XID_BUF_SIZE, req.wLength) IN
         [ret |-> TRUE,
          x |-> [x EXCEPT !.xid_out_data =
                              [i \in 0..(XID_BUF_SIZE - 1) |->
                                  IF i < length THEN req.payload[i] ELSE @[i]],
                          !.xid_out_expired = t]]
    ELSE [ret |-> FALSE, x |-> x]

\* req: [wIndexMatches, kind, wLength, payload]; returns [ret, x]
setup(x, req, t) ==
    IF ~req.wIndexMatches THEN [ret |-> FALSE, x |-> x]
    ELSE IF req.kind = "xid_descriptor"
    THEN [ret |-> x.xid_type \in {DUKE, STEELBATTALION}, x |-> x]
    ELSE IF req.kind \in {"capabilities_in", "capabilities_out", "get_report_in"}
    THEN [ret |-> TRUE, x |-> x]
    ELSE IF req.kind = "set_report_out"
    THEN LET length == MIN(XID_BUF_SIZE, req.wLength) IN
         [ret |-> TRUE,
          x |-> [x EXCEPT !.xid_out_data =
                              [i \in 0..(XID_BUF_SIZE - 1) |->
                                  IF i < length THEN req.payload[i] ELSE @[i]],
                          !.xid_out_expired = t]]
    ELSE [ret |-> FALSE, x |-> x]

\* setType that reattaches after the pause whatever the new type is
setType_AlwaysReattaches(x, d, type) ==
    IF x.xid_type = type THEN [x |-> x, detach |-> d, pulsed |-> FALSE]
    ELSE [x |-> [x EXCEPT !.xid_type = type], detach |-> FALSE, pulsed |-> TRUE]

\* returns [x, detach, pulsed]: the object, UDCON's DETACH bit afterwards (d before),
\* and whether the bus was detached during the call
setType(x, d, type) ==
    IF x.xid_type = type THEN [x |-> x, detach |-> d, pulsed |-> FALSE]
    ELSE [x |-> [x EXCEPT !.xid_type = type],
          detach |-> (type = DISCONNECTED), pulsed |-> TRUE]

getType(x) == x.xid_type

----------------------------------------------------------------------------
(* usbh_xinput.cpp: Init, Release and Poll of the XINPUT class *)

xbox360_wired_rumble == <<0, 8, 0, 0, 0, 0, 0, 0>>
xbox360_wired_led == <<1, 3, 0>>
xboxone_rumble == <<9, 0, 0, 9, 0, 15, 0, 0, 0, 0, 255, 0, 235>>
xbox360w_led == <<0, 0, 8, 64>>
xbox360w_rumble == <<0, 1, 15, 192>>
xbox360w_inquire_present == <<8, 0, 15, 192>>
xbox360w_power_off == <<0, 0, 8, 192>>
xbox360w_chatpad_init == <<0, 0, 12, 27>>
xbox360w_chatpad_keepalive1 == <<0, 0, 12, 31>>
xbox360w_chatpad_keepalive2 == <<0, 0, 12, 30>>
xboxog_rumble == <<0, 6, 0, 0, 0, 0>>
xbox360w_chatpad_led_ctrl == <<0, 0, 12, 0>>
chatpad_mod ==
    <<XINPUT_CHATPAD_CAPSLOCK, XINPUT_CHATPAD_GREEN, XINPUT_CHATPAD_ORANGE,
      XINPUT_CHATPAD_MESSENGER>>
chatpad_led_on == <<8, 9, 10, 11>>
chatpad_led_off == <<0, 1, 2, 3>>

\* the XINPUT instance after its constructor
XinputConstructed ==
    [bAddress |-> 0, dev_type |-> XINPUT_UNKNOWN, bIsReady |-> FALSE, dev_num_eps |-> 1]

\* xdata with the bytes of `patch` (a function offset -> value) written over it
PatchXdata(xd, patch) == [i \in DOMAIN xd |-> IF i \in DOMAIN patch THEN patch[i] ELSE xd[i]]

\* the families for which SetRumble / SetLed hand a command to outTransfer
SetRumbleTransfers(type) == type \in {XBOX360_WIRELESS, XBOX360_WIRED, XBOXONE, XBOXOG}
SetLedTransfers(type) == type \in {XBOX360_WIRELESS, XBOX360_WIRED}

SetRumble(h, idx, lValue, rValue, t) ==
    LET d == h.devs[idx]
        d1 == [d EXCEPT !.lValue_actual = d.lValue_requested,
                        !.rValue_actual = d.rValue_requested, !.timer_out = t]
        xd == h.xdata
        xd1 == CASE d.type = XBOX360_WIRELESS ->
                      PatchXdata(CopyToXdata(xd, xbox360w_rumble),
                                 (5 :> lValue) @@ (6 :> rValue))
                 [] d.type = XBOX360_WIRED ->
                      PatchXdata(CopyToXdata(xd, xbox360_wired_rumble),
                                 (3 :> lValue) @@ (4 :> rValue))
                 [] d.type = XBOXONE ->
                      PatchXdata(CopyToXdata(xd, xboxone_rumble),
                                 (8 :> ((lValue * 5) \div 13)) @@ (9 :> ((rValue * 5) \div 13)))
                 [] d.type = XBOXOG ->
                      PatchXdata(CopyToXdata(xd, xboxog_rumble),
                                 (2 :> lValue) @@ (3 :> lValue) @@ (4 :> rValue) @@ (5 :> rValue))
                 [] OTHER -> xd
    IN [devs |-> [h.devs EXCEPT ![idx] = d1], xdata |-> xd1]

SetLed(h, idx, quadrant, t) ==
    LET d == h.devs[idx]
        d1 == [d EXCEPT !.led_actual = d.led_requested, !.timer_out = t]
        xd == h.xdata
        xd1 == CASE d.type = XBOX360_WIRELESS ->
                      PatchXdata(CopyToXdata(xd, xbox360w_led),
                                 3 :> (IF quadrant = 0 THEN 64 ELSE BitOr(64, U8(quadrant + 5))))
                 [] d.type = XBOX360_WIRED ->
                      PatchXdata(CopyToXdata(xd, xbox360_wired_led),
                                 2 :> (IF quadrant = 0 THEN 0 ELSE U8(quadrant + 5)))
                 [] OTHER -> xd
    IN [devs |-> [h.devs EXCEPT ![idx] = d1], xdata |-> xd1]

\* the chatpad LED loop, from led (1..4) on
RECURSIVE ChatpadLeds(_, _, _, _)
ChatpadLeds(h, idx, led, t) ==
    IF led > 4 THEN h
    ELSE LET d == h.devs[idx]
             actual == BitAnd(d.chatpad_led_actual, chatpad_mod[led])
             want == BitAnd(d.chatpad_led_requested, chatpad_mod[led])
         IN IF actual = 0 /\ want # 0
            THEN ChatpadLeds(
                   [devs |-> [h.devs EXCEPT
                                 ![idx].chatpad_led_actual = BitOr(@, chatpad_mod[led]),
                                 ![idx].timer_out = t,
                                 ![idx].timer_periodic = @ - 2000],
                    xdata |-> PatchXdata(h.xdata, 3 :> chatpad_led_on[led])],
                   idx, led + 1, t)
            ELSE IF actual # 0 /\ want = 0
            THEN ChatpadLeds(
                   [devs |-> [h.devs EXCEPT
                                 ![idx].chatpad_led_actual = BitClear(@, chatpad_mod[led]),
                                 ![idx].timer_out = t,
                                 ![idx].timer_periodic = @ - 2000],
                    xdata |-> PatchXdata(h.xdata, 3 :> chatpad_led_off[led])],
                   idx, led + 1, t)
            ELSE ChatpadLeds(h, idx, led + 1, t)

\* PollOut sending the LED command in the pass that sends the rumble
PollOut_LedWithRumble(h, idx, t) ==
    LET d == h.devs[idx] IN
    IF d.led_requested # d.led_actual
    THEN SetLed(SetRumble(h, idx, d.lValue_requested, d.rValue_requested, t), idx,
                d.led_requested, t)
    ELSE SetRumble(h, idx, d.lValue_requested, d.rValue_requested, t)

\* the out-endpoint part of one Poll iteration, for the record idx
PollOut(h, idx, t) ==
    LET d == h.devs[idx]
        wireless == d.type = XBOX360_WIRELESS
        xbox == BitAnd(d.pad_state.wButtons, XINPUT_GAMEPAD_XBOX_BUTTON) # 0
    IN IF d.lValue_requested # d.lValue_actual \/ d.rValue_requested # d.rValue_actual
       THEN SetRumble(h, idx, d.lValue_requested, d.rValue_requested, t)
       ELSE IF d.led_requested # d.led_actual
       THEN SetLed(h, idx, d.led_requested, t)
       ELSE IF wireless /\ d.chatpad_initialised = 0
       THEN LET h1 == WritePacket(h, idx, xbox360w_chatpad_init, t)
            IN [h1 EXCEPT !.devs[idx].chatpad_initialised = 1]
       ELSE IF wireless /\ d.chatpad_led_requested # d.chatpad_led_actual
       THEN ChatpadLeds([h EXCEPT !.xdata = CopyToXdata(@, xbox360w_chatpad_led_ctrl)],
                        idx, 1, t)
       ELSE IF wireless /\ xbox
       THEN IF Elapsed(t, d.timer_poweroff) > 1000
            THEN LET h1 == WritePacket(h, idx, xbox360w_power_off, t)
                 IN [h1 EXCEPT !.devs[idx].timer_poweroff = t]
            ELSE h
       ELSE IF wireless /\ ~xbox
       THEN [h EXCEPT !.devs[idx].timer_poweroff = t]
       ELSE IF Elapsed(t, d.timer_periodic) > 1000
       THEN LET h1 == IF wireless
                      THEN LET a == WritePacket(WritePacket(h, idx,
                                        xbox360w_inquire_present, t), idx,
                                        xbox360w_controller_info, t)
                               b == SetLed(a, idx, d.led_requested, t)
                               tgl == BitXor(d.chatpad_keepalive_toggle, 1)
                               c == [b EXCEPT !.devs[idx].chatpad_keepalive_toggle = tgl]
                           IN WritePacket(c, idx,
                                          IF tgl # 0 THEN xbox360w_chatpad_keepalive1
                                          ELSE xbox360w_chatpad_keepalive2, t)
                      ELSE h
            IN [h1 EXCEPT !.devs[idx].timer_periodic = t]
       ELSE h

\* the record an endpoint belongs to: the first one in use whose in or out pipe it is
DeviceOfEndpoint(devs, i) ==
    IF \E k \in 0..(XINPUT_MAXGAMEPADS - 1) :
          devs[k].bAddress # 0 /\ (devs[k].usbh_inPipe = i \/ devs[k].usbh_outPipe = i)
    THEN CHOOSE k \in 0..(XINPUT_MAXGAMEPADS - 1) :
            /\ devs[k].bAddress # 0 /\ (devs[k].usbh_inPipe = i \/ devs[k].usbh_outPipe = i)
            /\ \A j \in 0..(k - 1) :
                  ~(devs[j].bAddress # 0 /\ (devs[j].usbh_inPipe = i \/ devs[j].usbh_outPipe = i))
    ELSE NoDevice

\* the endpoints are registered in pairs: the odd pipes are IN, the even ones OUT
EpIsIn(i) == i % 2 = 1

\* the packet of "no transfer completed" on an in endpoint
NoPacket == <<>>

\* the loop of Poll from endpoint i on.  rx[i] is the packet inTransfer delivers on the
\* in endpoint i (NoPacket when the transfer does not succeed)
RECURSIVE PollFrom(_, _, _, _, _)
PollFrom(h, cls, i, rx, t) ==
    IF i >= cls.dev_num_eps THEN h
    ELSE LET xp == DeviceOfEndpoint(h.devs, i) IN
         IF EpIsIn(i)
         THEN IF rx[i] # NoPacket
              THEN PollFrom(ParseInputData([h EXCEPT !.xdata = CopyToXdata(@, rx[i])],
                                           xp, i, cls, t).h,
                            cls, i + 1, rx, t)
              ELSE PollFrom(h, cls, i + 1, rx, t)
         ELSE IF xp = NoDevice \/ Elapsed(t, h.devs[xp].timer_out) < 20
              THEN PollFrom(h, cls, i + 1, rx, t)
              ELSE PollFrom(PollOut(h, xp, t), cls, i + 1, rx, t)

Poll(h, cls, rx, t) == IF ~cls.bIsReady THEN h ELSE PollFrom(h, cls, 1, rx, t)

\* Init of a device that enumerates: dev is [type, config], config being the bytes the
\* enumeration leaves in xdata.  The address pool hands out address 1.
\* returns [h, cls]
XInputInit(h, dev, t) ==
    LET h0 == [h EXCEPT !.xdata = CopyToXdata(@, dev.config)] IN
    IF dev.type = XBOX360_WIRELESS
    THEN [h |-> h0,
          cls |-> [bAddress |-> 1, dev_type |-> XBOX360_WIRELESS, bIsReady |-> TRUE,
                   dev_num_eps |-> 9]]
    ELSE [h |-> alloc_xinput_device(h0, 1, 0, 1, 2, dev.type, t).h,
          cls |-> [bAddress |-> 1, dev_type |-> XINPUT_UNKNOWN, bIsReady |-> TRUE,
                   dev_num_eps |-> 3]]

\* Release with the loop left at the first record it frees
\* returns [h, cls]
Release_FirstOnly(h, cls) ==
    LET k0 == IF cls.bAddress = 0 THEN NoDevice
              ELSE IF \E k \in 0..(XINPUT_MAXGAMEPADS - 1) : h.devs[k].bAddress = cls.bAddress
              THEN CHOOSE k \in 0..(XINPUT_MAXGAMEPADS - 1) :
                      /\ h.devs[k].bAddress = cls.bAddress
                      /\ \A j \in 0..(k - 1) : h.devs[j].bAddress # cls.bAddress
              ELSE NoDevice
    IN [h |-> free_xinput_device(h, k0),
        cls |-> [cls EXCEPT !.bAddress = 0, !.bIsReady = FALSE]]

\* returns [h, cls]
Release(h, cls) ==
    [h |-> [h EXCEPT !.devs = [k \in 0..(XINPUT_MAXGAMEPADS - 1) |->
                                  IF cls.bAddress # 0 /\ h.devs[k].bAddress = cls.bAddress
                                  THEN ZeroDevice ELSE h.devs[k]]],
     cls |-> [cls EXCEPT !.bAddress = 0, !.bIsReady = FALSE]]

\* UsbHost.Task() as seen by this driver: ev is what the bus does during the call,
\* [kind |-> "attach", dev], [kind |-> "detach"] or [kind |-> "poll", rx]
\* returns [h, cls]
UsbHostTask(h, cls, ev, t) ==
    CASE ev.kind = "attach" /\ cls.bAddress = 0 -> XInputInit(h, ev.dev, t)
      [] ev.kind = "detach" /\ cls.bAddress # 0 -> Release(h, cls)
      [] ev.kind = "poll" -> [h |-> Poll(h, cls, ev.rx, t), cls |-> cls]
      [] OTHER -> [h |-> h, cls |-> cls]

----------------------------------------------------------------------------
(* master.cpp: master_init and master_task *)

EEPROM_MAGIC == 171

\* master_init leaving the store as it found it on a first run
master_init_FirstRunUnwritten(ee0) ==
    [usbd_c |-> [i \in 0..(MAX_GAMEPADS - 1) |->
                    [SetupController EXCEPT !.sb.in.gearLever = SBC_GEAR_N]],
     user_data |-> [i \in 0..(MAX_GAMEPADS - 1) |->
                    [ZeroUserData EXCEPT !.vmouse_x = SBC_AIMING_MID,
                                         !.vmouse_y = SBC_AIMING_MID]],
     sens |-> IF ee0.magic # EEPROM_MAGIC THEN SB_DEFAULT_SENSITIVITY ELSE ee0.sensitivity,
     ee |-> ee0]

\* the state master_init leaves, for an EEPROM found holding ee0
\* returns [usbd_c, user_data, sens, ee]
master_init(ee0) ==
    [usbd_c |-> [i \in 0..(MAX_GAMEPADS - 1) |->
                    [SetupController EXCEPT !.sb.in.gearLever = SBC_GEAR_N]],
     user_data |-> [i \in 0..(MAX_GAMEPADS - 1) |->
                    [ZeroUserData EXCEPT !.vmouse_x = SBC_AIMING_MID,
                                         !.vmouse_y = SBC_AIMING_MID]],
     sens |-> IF ee0.magic # EEPROM_MAGIC THEN SB_DEFAULT_SENSITIVITY ELSE ee0.sensitivity,
     ee |-> IF ee0.magic # EEPROM_MAGIC
            THEN [magic |-> EEPROM_MAGIC, sensitivity |-> SB_DEFAULT_SENSITIVITY,
                  writes |-> ee0.writes]
            ELSE ee0]

\* SelectFamily testing orange before green
SelectFamily_OrangeFirst(x, type) ==
    LET t1 == IF x.bAddress = 0 THEN DISCONNECTED
              ELSE IF type = DISCONNECTED THEN DUKE ELSE type
    IN IF usbh_xinput_is_chatpad_pressed(x, XINPUT_CHATPAD_ORANGE) # 0
       THEN [x |-> [x EXCEPT !.chatpad_led_requested = XINPUT_CHATPAD_ORANGE],
             type |-> STEELBATTALION]
       ELSE IF usbh_xinput_is_chatpad_pressed(x, XINPUT_CHATPAD_GREEN) # 0
       THEN [x |-> [x EXCEPT !.chatpad_led_requested = XINPUT_CHATPAD_GREEN], type |-> DUKE]
       ELSE [x |-> x, type |-> t1]

\* the target-family selection at the head of the slot loop: returns [x, type]
SelectFamily(x, type) ==
    LET t1 == IF x.bAddress = 0 THEN DISCONNECTED
              ELSE IF type = DISCONNECTED THEN DUKE ELSE type
    IN IF usbh_xinput_is_chatpad_pressed(x, XINPUT_CHATPAD_GREEN) # 0
       THEN [x |-> [x EXCEPT !.chatpad_led_requested = XINPUT_CHATPAD_GREEN], type |-> DUKE]
       ELSE IF usbh_xinput_is_chatpad_pressed(x, XINPUT_CHATPAD_ORANGE) # 0
       THEN [x |-> [x EXCEPT !.chatpad_led_requested = XINPUT_CHATPAD_ORANGE],
             type |-> STEELBATTALION]
       ELSE [x |-> x, type |-> t1]

\* PeerExchange reading the peer's answer whatever endTransmission returned
PeerExchange_IgnoresError(c, peer) ==
    LET rx_len == IF c.type = DUKE THEN SIZEOF_DUKE_OUT
                  ELSE IF c.type = STEELBATTALION THEN SIZEOF_SB_OUT ELSE 0
    IN IF rx_len # 0 /\ Len(peer.resp) = rx_len
       THEN IF c.type = DUKE
            THEN [c EXCEPT !.duke.out = [j \in 0..(rx_len - 1) |-> peer.resp[j + 1]]]
            ELSE [c EXCEPT !.sb.out = [j \in 0..(rx_len - 1) |-> peer.resp[j + 1]]]
       ELSE c

\* PeerExchange copying whatever the read request returned
PeerExchange_CopiesPartial(c, peer) ==
    LET rx_len == IF c.type = DUKE THEN SIZEOF_DUKE_OUT
                  ELSE IF c.type = STEELBATTALION THEN SIZEOF_SB_OUT ELSE 0
        n == MIN(rx_len, Len(peer.resp))
    IN IF peer.error # 0 THEN c
       ELSE IF c.type = DUKE
       THEN [c EXCEPT !.duke.out = [j \in 0..(rx_len - 1) |->
                                       IF j < n THEN peer.resp[j + 1] ELSE @[j]]]
       ELSE IF c.type = STEELBATTALION
       THEN [c EXCEPT !.sb.out = [j \in 0..(rx_len - 1) |->
                                     IF j < n THEN peer.resp[j + 1] ELSE @[j]]]
       ELSE c

\* the length of the out report master_task asks the peer of a slot for
RxLen(type) == IF type = DUKE THEN SIZEOF_DUKE_OUT
               ELSE IF type = STEELBATTALION THEN SIZEOF_SB_OUT ELSE 0

\* the bytes left in the Wire receive buffer after the exchange with the peer of a slot,
\* buf being the bytes in it before: a failed write leaves the step at once; a read
\* request replaces the buffer with the bytes received; the copy loop reads rx_len of
\* them if that many came; the flush loop reads what is left
WireLeft(c, peer, buf) ==
    IF peer.error # 0 THEN buf
    ELSE LET received == IF RxLen(c.type) # 0 THEN peer.resp ELSE buf
             copied == IF RxLen(c.type) # 0 /\ Len(peer.resp) = RxLen(c.type)
                       THEN MIN(RxLen(c.type), Len(received)) ELSE 0
             after_copy == SubSeq(received, copied + 1, Len(received))
         IN SubSeq(after_copy, Len(after_copy) + 1, Len(after_copy))

\* the I2C exchange with the peer of slot i >= 1.  peer is what the wire does:
\* [error, resp]: the code endTransmission returns and the bytes the peer answers with.
\* returns the slot's controller record
PeerExchange(c, peer) ==
    LET rx_len == IF c.type = DUKE THEN SIZEOF_DUKE_OUT
                  ELSE IF c.type = STEELBATTALION THEN SIZEOF_SB_OUT ELSE 0
    IN IF peer.error # 0 THEN c
       ELSE IF rx_len # 0 /\ Len(peer.resp) = rx_len
       THEN IF c.type = DUKE
            THEN [c EXCEPT !.duke.out = [j \in 0..(rx_len - 1) |-> peer.resp[j + 1]]]
            ELSE [c EXCEPT !.sb.out = [j \in 0..(rx_len - 1) |-> peer.resp[j + 1]]]
       ELSE c

\* the bytes written to the peer of a slot: the status byte, then the in report
PeerMessage(c) ==
    <<BitOr(240, c.type)>> \o
    (IF c.type = DUKE THEN DukeInBytes(c.duke.in)
     ELSE IF c.type = STEELBATTALION THEN SbInBytes(c.sb.in) ELSE <<>>)

\* m is the coordinator state [devs, usbd_c, user_data, sens, ee]; the body of the slot
\* loop for slot i
\* slot i after handle_duke, hd being what it returns
SlotAfterDuke(m, c1, hd) ==
    [x |-> hd.x, c |-> [c1 EXCEPT !.duke.in = hd.duke_in], ud |-> hd.ud,
     sens |-> m.sens, ee |-> m.ee]

\* slot i after handle_sbattalion, hs being what it returns
SlotAfterSb(c1, hs) ==
    [x |-> hs.x, c |-> [c1 EXCEPT !.sb.in = hs.sb_in], ud |-> hs.ud,
     sens |-> hs.sens, ee |-> hs.ee]

\* the mapping of slot i, f being the family selection's result [type, x]:
\* returns [x, c, ud, sens, ee]
SlotMap(m, i, f, t) ==
    LET c1 == [m.usbd_c[i] EXCEPT !.type = f.type] IN
    IF f.type = DUKE
    THEN SlotAfterDuke(m, c1, handle_duke(f.x, c1.duke, m.user_data[i]))
    ELSE IF f.type = STEELBATTALION
    THEN SlotAfterSb(c1, handle_sbattalion(f.x, c1.sb, m.user_data[i], m.sens, m.ee, t))
    ELSE [x |-> f.x, c |-> c1, ud |-> m.user_data[i], sens |-> m.sens, ee |-> m.ee]

\* the state after the loop body for slot i, r being the mapping's result
SlotStore(m, i, peers, r) ==
    [devs |-> [m.devs EXCEPT ![i] = r.x],
     usbd_c |-> [m.usbd_c EXCEPT ![i] = IF i = 0 THEN r.c ELSE PeerExchange(r.c, peers[i])],
     user_data |-> [m.user_data EXCEPT ![i] = r.ud],
     sens |-> r.sens, ee |-> r.ee]

SlotStep(m, i, peers, t) ==
    SlotStore(m, i, peers, SlotMap(m, i, SelectFamily(m.devs[i], m.usbd_c[i].type), t))

RECURSIVE SlotLoop(_, _, _, _)
SlotLoop(m, i, peers, t) ==
    IF i >= MAX_GAMEPADS THEN m ELSE SlotLoop(SlotStep(m, i, peers, t), i + 1, peers, t)

\* the state master_task leaves, u being what UsbHost.Task() leaves and m what the
\* slot loop leaves
MasterResult(u, m) ==
    [h |-> [devs |-> m.devs, xdata |-> u.h.xdata], cls |-> u.cls,
     usbd_c |-> m.usbd_c, user_data |-> m.user_data, sens |-> m.sens, ee |-> m.ee]

\* the slot loop on the records UsbHost.Task() leaves
MasterSlots(u, c, ud, sens, ee, peers, t) ==
    MasterResult(u, SlotLoop([devs |-> u.h.devs, usbd_c |-> c, user_data |-> ud,
                              sens |-> sens, ee |-> ee], 0, peers, t))

\* returns [h, cls, usbd_c, user_data, sens, ee]
master_task(h, cls, c, ud, sens, ee, ev, peers, t) ==
    MasterSlots(UsbHostTask(h, cls, ev, t), c, ud, sens, ee, peers, t)

----------------------------------------------------------------------------
(* main.cpp: the poll tick of loop() *)

POLL_INTERVAL_MS == 4

\* io is what the console does during the tick: [send_ok, recv]
\* returns [x, detach, usbd_c0, pair, sent, got]: the XID object, UDCON's DETACH bit,
\* slot 0's controller record, the family whose report pair was exchanged
\* (DISCONNECTED for none), and the results of sendReport and getReport
PollTickBody(x, d, c0, io, t) ==
    LET current_type == getType(x) IN
    IF current_type = DUKE
    THEN LET s1 == IF c0.type # DUKE THEN setType(x, d, DUKE)
                   ELSE [x |-> x, detach |-> d, pulsed |-> FALSE]
             sr == sendReport(s1.x, DukeInBytes(c0.duke.in), SIZEOF_DUKE_IN, io.send_ok)
             gr == getReport(sr.x, c0.duke.out, SIZEOF_DUKE_OUT, io.recv, t)
         IN [x |-> gr.x, detach |-> FALSE, usbd_c0 |-> [c0 EXCEPT !.duke.out = gr.data],
             pair |-> DUKE, sent |-> sr, got |-> gr.ret]
    ELSE IF current_type = STEELBATTALION
    THEN LET s1 == IF c0.type # STEELBATTALION THEN setType(x, d, STEELBATTALION)
                   ELSE [x |-> x, detach |-> d, pulsed |-> FALSE]
             sr == sendReport(s1.x, SbInBytes(c0.sb.in), SIZEOF_SB_IN, io.send_ok)
             gr == getReport(sr.x, c0.sb.out, SIZEOF_SB_OUT, io.recv, t)
         IN [x |-> gr.x, detach |-> FALSE, usbd_c0 |-> [c0 EXCEPT !.sb.out = gr.data],
             pair |-> STEELBATTALION, sent |-> sr, got |-> gr.ret]
    ELSE LET s1 == IF c0.type # DISCONNECTED THEN setType(x, d, DISCONNECTED)
                   ELSE [x |-> x, detach |-> d, pulsed |-> FALSE]
         IN [x |-> s1.x, detach |-> TRUE, usbd_c0 |-> c0, pair |-> DISCONNECTED,
             sent |-> [ret |-> 0, x |-> s1.x, attempted |-> FALSE, tx |-> 0], got |-> 0]

----------------------------------------------------------------------------
(* The environment: packets, peers, console traffic *)

\* a packet of n bytes, zero but for the bytes of `patch` (offset -> value)
Pkt(n, patch) == [i \in 1..n |-> IF (i - 1) \in DOMAIN patch THEN patch[i - 1] ELSE 0]

\* the reports of the wireless receiver are 29 bytes long
WirelessReport(patch) == Pkt(29, patch)

\* wireless receiver: link report "pad present" / "pad gone"
PktConnect == WirelessReport((0 :> 8) @@ (1 :> 128))
PktDisconnect == WirelessReport((0 :> 8) @@ (1 :> 0))
\* wireless receiver: chatpad report with modifier byte and two key bytes
PktChatpad(mods, k1, k2) ==
    WirelessReport((1 :> 2) @@ (24 :> 0) @@ (25 :> mods) @@ (26 :> k1) @@ (27 :> k2))
\* wireless receiver: pad event with a buttons word (wire layout), triggers and the
\* four sticks as 16-bit patterns
PktPad(wb, lt, rt, lx, ly, rx, ry) ==
    WirelessReport(
        (1 :> 1) @@ (5 :> 19) @@ (6 :> Lo(wb)) @@ (7 :> Hi(wb)) @@ (8 :> lt) @@ (9 :> rt) @@
        (10 :> Lo(lx)) @@ (11 :> Hi(lx)) @@ (12 :> Lo(ly)) @@ (13 :> Hi(ly)) @@
        (14 :> Lo(rx)) @@ (15 :> Hi(rx)) @@ (16 :> Lo(ry)) @@ (17 :> Hi(ry)))

\* a Poll in which only the in endpoint ep completes a transfer, with packet pkt
RxOn(ep, pkt) == [i \in 1..8 |-> IF i = ep THEN pkt ELSE NoPacket]
RxNone == [i \in 1..8 |-> NoPacket]

EvIdle == [kind |-> "poll", rx |-> RxNone]
EvPacket(ep, pkt) == [kind |-> "poll", rx |-> RxOn(ep, pkt)]
EvAttach(type) == [kind |-> "attach", dev |-> [type |-> type, config |-> <<9, 2>>]]
EvDetach == [kind |-> "detach"]

\* no peer answers on the I2C bus (endTransmission reports a NACK on address)
PeersAbsent == [i \in 1..(MAX_GAMEPADS - 1) |-> [error |-> 2, resp |-> <<>>]]
\* the peer of slot k acknowledges and answers with resp; the others are absent
PeerAnswers(k, resp) ==
    [i \in 1..(MAX_GAMEPADS - 1) |->
        IF i = k THEN [error |-> 0, resp |-> resp] ELSE [error |-> 2, resp |-> <<>>]]

\* USB_Recv yields nothing / a report of n bytes with the bytes of patch
RecvNothing == [len |-> -1, r |-> Zeros(XID_BUF_SIZE)]
RecvReport(n, patch) ==
    [len |-> n, r |-> [i \in 0..(XID_BUF_SIZE - 1) |->
                          IF i = 1 THEN n ELSE IF i \in DOMAIN patch THEN patch[i] ELSE 0]]

----------------------------------------------------------------------------
(* slave.cpp: a peer board; main.cpp setup() and loop() as they run there *)

\* a report kept as its bytes, read as the sequence a transfer carries
BytesOf(buf, n) == [k \in 1..n |-> buf[k - 1]]

\* the usbd_controller_t a peer holds in usbd_c[0] after setup(); the in reports are
\* kept as the bytes the bus handler stores into them
PeerSetup ==
    [type |-> DUKE,
     duke |-> [in |-> OutReport(SIZEOF_DUKE_IN), out |-> OutReport(SIZEOF_DUKE_OUT)],
     sb |-> [in |-> OutReport(SIZEOF_SB_IN), out |-> OutReport(SIZEOF_SB_OUT)]]

\* i2c_get_data taking the declared family but never the payload
i2c_get_data_DropsPayload(c, msg) ==
    LET len == Len(msg)
        packet_id == IF len < 1 THEN 0 ELSE msg[1]
    IN IF len < 1 \/ packet_id = 170 \/ BitAnd(packet_id, 240) # 240 THEN c
       ELSE [c EXCEPT !.type = BitAnd(packet_id, 15)]

\* i2c_get_data without the ping test and with the tag test on the top bit alone
i2c_get_data_PingAsStatus(c, msg) ==
    LET len == Len(msg)
        packet_id == IF len < 1 THEN 0 ELSE msg[1]
        type == BitAnd(packet_id, 15)
        rxlen == IF type = DUKE THEN SIZEOF_DUKE_IN
                 ELSE IF type = STEELBATTALION THEN SIZEOF_SB_IN ELSE 0
    IN IF len < 1 \/ BitAnd(packet_id, 128) # 128 THEN c
       ELSE IF len # rxlen + 1 \/ rxlen = 0 THEN [c EXCEPT !.type = type]
       ELSE IF type = DUKE
       THEN [c EXCEPT !.type = type, !.duke.in = [k \in 0..(rxlen - 1) |-> msg[k + 2]]]
       ELSE [c EXCEPT !.type = type, !.sb.in = [k \in 0..(rxlen - 1) |-> msg[k + 2]]]

\* the onReceive handler: c is usbd_c[0], msg the bytes the bus delivered (len of them).
\* returns usbd_c[0]
i2c_get_data(c, msg) ==
    LET len == Len(msg)
        packet_id == IF len < 1 THEN 0 ELSE msg[1]
        type == BitAnd(packet_id, 15)
        rxlen == IF type = DUKE THEN SIZEOF_DUKE_IN
                 ELSE IF type = STEELBATTALION THEN SIZEOF_SB_IN ELSE 0
    IN IF len < 1 \/ packet_id = 170 \/ BitAnd(packet_id, 240) # 240 THEN c
       ELSE IF len # rxlen + 1 \/ rxlen = 0 THEN [c EXCEPT !.type = type]
       ELSE IF type = DUKE
       THEN [c EXCEPT !.type = type, !.duke.in = [k \in 0..(rxlen - 1) |-> msg[k + 2]]]
       ELSE [c EXCEPT !.type = type, !.sb.in = [k \in 0..(rxlen - 1) |-> msg[k + 2]]]

\* Wire.available() when i2c_get_data returns: every path but `len < 1` ends in
\* flush_and_leave, which reads until nothing is available
i2c_get_data_available(msg) == IF Len(msg) < 1 THEN Len(msg) ELSE 0

\* i2c_send_data answering every request with the standard out report
i2c_send_data_AlwaysDuke(c) == BytesOf(c.duke.out, SIZEOF_DUKE_OUT)

\* the onRequest handler: the bytes it writes to the bus
i2c_send_data(c) ==
    IF c.type = DUKE THEN BytesOf(c.duke.out, SIZEOF_DUKE_OUT)
    ELSE IF c.type = STEELBATTALION THEN BytesOf(c.sb.out, SIZEOF_SB_OUT)
    ELSE <<0>>

\* a peer board after setup(): usbd_c[0], its XID_ object, UDCON's DETACH bit and
\* loop()'s poll_timer
PeerBoard == [c |-> PeerSetup, xid |-> XidConstructed, detach |-> FALSE, poll_timer |-> 0]
PeerBoot == [i \in 1..(MAX_GAMEPADS - 1) |-> PeerBoard]

\* loop() on a peer board p at time t: slave_task() does nothing, then the poll tick.
\* io is what the console does during the tick: [send_ok, recv]
PeerLoop(p, io, t) ==
    IF Elapsed(t, p.poll_timer) < POLL_INTERVAL_MS THEN p
    ELSE LET current_type == getType(p.xid) IN
    IF current_type = DUKE
    THEN LET s1 == IF p.c.type # DUKE THEN setType(p.xid, p.detach, DUKE)
                   ELSE [x |-> p.xid, detach |-> p.detach, pulsed |-> FALSE]
             sr == sendReport(s1.x, BytesOf(p.c.duke.in, SIZEOF_DUKE_IN), SIZEOF_DUKE_IN,
                              io.send_ok)
             gr == getReport(sr.x, p.c.duke.out, SIZEOF_DUKE_OUT, io.recv, t)
         IN [c |-> [p.c EXCEPT !.duke.out = gr.data], xid |-> gr.x, detach |-> FALSE,
             poll_timer |-> t]
    ELSE IF current_type = STEELBATTALION
    THEN LET s1 == IF p.c.type # STEELBATTALION
                   THEN setType(p.xid, p.detach, STEELBATTALION)
                   ELSE [x |-> p.xid, detach |-> p.detach, pulsed |-> FALSE]
             sr == sendReport(s1.x, BytesOf(p.c.sb.in, SIZEOF_SB_IN), SIZEOF_SB_IN,
                              io.send_ok)
             gr == getReport(sr.x, p.c.sb.out, SIZEOF_SB_OUT, io.recv, t)
         IN [c |-> [p.c EXCEPT !.sb.out = gr.data], xid |-> gr.x, detach |-> FALSE,
             poll_timer |-> t]
    ELSE LET s1 == IF p.c.type # DISCONNECTED THEN setType(p.xid, p.detach, DISCONNECTED)
                   ELSE [x |-> p.xid, detach |-> p.detach, pulsed |-> FALSE]
         IN [c |-> p.c, xid |-> s1.x, detach |-> TRUE, poll_timer |-> t]

----------------------------------------------------------------------------
(* The coordinator: setup() followed by loop() forever *)

\* the state after setup() on the coordinator board, for an EEPROM found holding ee0
Boot(ee0) ==
    LET mi == master_init(ee0) IN
    /\ xin = XinputConstructed
    /\ xinput_devices = [i \in 0..(XINPUT_MAXGAMEPADS - 1) |-> ZeroDevice]
    /\ xdata = Zeros(EP_MAXPKTSIZE)
    /\ usbd_c = mi.usbd_c
    /\ user_data = mi.user_data
    /\ sb_sensitivity = mi.sens
    /\ eeprom = mi.ee
    /\ xid = XidConstructed
    /\ detach = FALSE
    /\ now = 0
    /\ poll_timer = 0
    /\ pc = "task"
    /\ peer_c = PeerBoot

\* a blank EEPROM, and one that holds the magic byte and a stored preset
EepromBlank == [magic |-> 255, sensitivity |-> 65535, writes |-> 0]
EepromHolding(v) == [magic |-> EEPROM_MAGIC, sensitivity |-> v, writes |-> 0]

\* the codes handle_sbattalion queries for an edge on every call
EdgeCodes ==
    {XINPUT_CHATPAD_Q, XINPUT_CHATPAD_A, XINPUT_CHATPAD_W, XINPUT_CHATPAD_S,
     XINPUT_CHATPAD_Z, XINPUT_CHATPAD_SHIFT}

\* observation of the edge queries of one handle_sbattalion call on slot 0 (x0 before,
\* x1 after): per code, how many consecutive queries have seen it held (run, counted
\* up to 3) and how many of those returned true (trues).  A query returns true exactly
\* when it enters the code into the history.
InHistory(x, code) == \E k \in 0..2 : x.chatpad_state_old[k] = code
EdgeObserve(e, x0, x1) ==
    [code \in EdgeCodes |->
        IF usbh_xinput_is_chatpad_pressed(x0, code) # 0
        THEN [run |-> IF e[code].run < 3 THEN e[code].run + 1 ELSE 3,
              trues |-> IF ~InHistory(x0, code) /\ InHistory(x1, code)
                        THEN e[code].trues + 1 ELSE e[code].trues]
        ELSE [run |-> 0, trues |-> 0]]
EdgeInit == [code \in EdgeCodes |-> [run |-> 0, trues |-> 0]]

\* millis() advances by dt
AdvanceTime(Dts, horizon) ==
    /\ \E dt \in Dts : now + dt <= horizon /\ now' = now + dt
    /\ UNCHANGED <<peer_c, xin, xinput_devices, xdata, usbd_c, user_data, sb_sensitivity, eeprom,
                   xid, detach, poll_timer, pc, last, edge>>

\* loop(): the call of master_task()
\* what master_task() leaves: r is its result, dev0 slot 0's record as UsbHost.Task()
\* left it
MasterTaskEffect(r, dev0) ==
    /\ xinput_devices' = r.h.devs
    /\ xdata' = r.h.xdata
    /\ xin' = r.cls
    /\ usbd_c' = r.usbd_c
    /\ user_data' = r.user_data
    /\ sb_sensitivity' = r.sens
    /\ eeprom' = r.ee
    /\ last' = [op |-> "master_task",
                lost0 |-> xinput_devices[0].bAddress # 0 /\ dev0.bAddress = 0,
                w2 |-> usbd_c[0].sb.in.wButtons[2],
                shift_edge |-> /\ ~InHistory(dev0, XINPUT_CHATPAD_SHIFT)
                               /\ InHistory(r.h.devs[0], XINPUT_CHATPAD_SHIFT)]
    /\ edge' = IF r.usbd_c[0].type = STEELBATTALION
               THEN EdgeObserve(edge, dev0, r.h.devs[0])
               ELSE IF dev0.bAddress = 0 THEN EdgeInit ELSE edge

MasterTask(Evs, Peers) ==
    /\ pc = "task"
    /\ \E ev \in Evs, peers \in Peers :
         MasterTaskEffect(
             master_task([devs |-> xinput_devices, xdata |-> xdata], xin, usbd_c,
                         user_data, sb_sensitivity, eeprom, ev, peers, now),
             UsbHostTask([devs |-> xinput_devices, xdata |-> xdata], xin, ev,
                         now).h.devs[0])
    /\ pc' = "poll"
    /\ UNCHANGED <<peer_c, xid, detach, now, poll_timer>>

\* loop(): the poll tick that follows
PollTick(Ios) ==
    /\ pc = "poll"
    /\ IF Elapsed(now, poll_timer) >= POLL_INTERVAL_MS
       THEN \E io \in Ios :
              LET r == PollTickBody(xid, detach, usbd_c[0], io, now) IN
              /\ xid' = r.x
              /\ detach' = r.detach
              /\ usbd_c' = [usbd_c EXCEPT ![0] = r.usbd_c0]
              /\ poll_timer' = now
              /\ last' = [op |-> "poll", pair |-> r.pair,
                          lost0 |-> last.op = "master_task" /\ last.lost0,
                          ret |-> r.sent.ret, attempted |-> r.sent.attempted,
                          tx |-> r.sent.tx, got |-> r.got]
       ELSE /\ last' = [op |-> "skip"]
            /\ UNCHANGED <<xid, detach, usbd_c, poll_timer>>
    /\ pc' = "task"
    /\ UNCHANGED <<peer_c, xin, xinput_devices, xdata, user_data, sb_sensitivity, eeprom, now, edge>>

\* a control request of the console, served by XID_::setup() between two steps of loop()
ControlRequest(Reqs) ==
    /\ \E req \in Reqs :
         LET r == setup(xid, req, now) IN
         /\ xid' = r.x
         /\ last' = [op |-> "setup", kind |-> req.kind, ret |-> r.ret]
    /\ UNCHANGED <<peer_c, xin, xinput_devices, xdata, usbd_c, user_data, sb_sensitivity, eeprom,
                   detach, now, poll_timer, pc, edge>>

----------------------------------------------------------------------------
(* Spec: the coordinator with a wireless receiver, one pad and its chatpad *)

CoordEvents ==
    {EvIdle, EvAttach(XBOX360_WIRELESS), EvDetach,
     EvPacket(1, PktConnect), EvPacket(1, PktDisconnect),
     EvPacket(1, PktChatpad(XINPUT_CHATPAD_ORANGE, 0, 0)),
     EvPacket(1, PktChatpad(XINPUT_CHATPAD_GREEN, 0, 0)),
     EvPacket(1, PktChatpad(0, 0, 0))}

CoordPeers == {PeersAbsent}

CoordIos ==
    {[send_ok |-> TRUE, recv |-> RecvNothing]}

CoordRequests ==
    {[wIndexMatches |-> TRUE, kind |-> "xid_descriptor", wLength |-> 0,
      payload |-> Zeros(XID_BUF_SIZE)]}

Init ==
    /\ Boot(EepromBlank)
    /\ last = [op |-> "setup()"]
    /\ edge = EdgeInit

Next ==
    \/ AdvanceTime({POLL_INTERVAL_MS}, MaxNow)
    \/ MasterTask(CoordEvents, CoordPeers)
    \/ PollTick(CoordIos)
    \/ ControlRequest(CoordRequests)

Spec == Init /\ [][Next]_vars

----------------------------------------------------------------------------
(* Claims about the coordinator loop *)

\* C1: when the record of slot 0 loses its bus address, then after the master_task()
\* that sees it and the poll tick that follows, usbd_c[0].type is DISCONNECTED,
\* getType() returns DISCONNECTED and the console-facing bus is detached.
C1_DisconnectReachesConsole ==
    (last.op = "poll" /\ last.lost0) =>
        /\ usbd_c[0].type = DISCONNECTED
        /\ getType(xid) = DISCONNECTED
        /\ detach

\* C2: after every executed poll tick the emulation type equals slot 0's target
\* family, and the report pair exchanged in the tick is the pair of that family.
C2_PairMatchesFamily ==
    (last.op = "poll" /\ usbd_c[0].type \in {DUKE, STEELBATTALION}) =>
        /\ getType(xid) = usbd_c[0].type
        /\ last.pair = usbd_c[0].type

----------------------------------------------------------------------------
(* SpecXid: the XID_ object under an arbitrary caller and console *)

\* the observations that outlive one call: when the last fresh out report arrived
\* (fresh_at) and the argument of the last setType that changed the type (eff)

XidTypes == {DISCONNECTED, DUKE, STEELBATTALION}

\* in reports a caller hands to sendReport: [data, len]
XidSendInputs ==
    {[data |-> DukeInBytes([ZeroDukeIn EXCEPT !.bLength = SIZEOF_DUKE_IN, !.A = a]),
      len |-> SIZEOF_DUKE_IN] : a \in {0, 255}}
    \cup
    {[data |-> SbInBytes([ZeroSbIn EXCEPT !.bLength = SIZEOF_SB_IN, !.gearLever = g]),
      len |-> SIZEOF_SB_IN] : g \in {SBC_GEAR_N}}
    \cup
    {[data |-> Pkt(40, (1 :> 40) @@ (35 :> b)), len |-> 40] : b \in {0, 1}}

\* what USB_Recv yields for a request of len bytes
XidRecvInputs(len) ==
    {RecvNothing, RecvReport(len, 3 :> 255), [len |-> 3, r |-> Zeros(XID_BUF_SIZE)]}

XidRequests ==
    {[wIndexMatches |-> TRUE, kind |-> k, wLength |-> SIZEOF_DUKE_OUT,
      payload |-> RecvReport(SIZEOF_DUKE_OUT, 3 :> 128).r] : k \in SetupKinds}
    \cup
    {[wIndexMatches |-> FALSE, kind |-> "set_report_out", wLength |-> SIZEOF_DUKE_OUT,
      payload |-> RecvReport(SIZEOF_DUKE_OUT, 3 :> 128).r]}

XidSetType ==
    \E type \in XidTypes :
      LET r == setType(xid, detach, type) IN
      /\ xid' = r.x
      /\ detach' = r.detach
      /\ last' = [op |-> "setType", arg |-> type, pre_type |-> xid.xid_type,
                  pre_detach |-> detach, pulsed |-> r.pulsed,
                  fresh_at |-> last.fresh_at,
                  eff |-> IF type # xid.xid_type THEN type ELSE last.eff]
      /\ UNCHANGED <<peer_c, xin, xinput_devices, xdata, usbd_c, user_data, sb_sensitivity,
                     eeprom, now, poll_timer, pc, edge>>

XidSendReport ==
    \E in \in XidSendInputs, usb_ok \in BOOLEAN :
      LET r == sendReport(xid, in.data, in.len, usb_ok) IN
      /\ xid' = r.x
      /\ last' = [op |-> "sendReport", data |-> in.data, len |-> in.len,
                  pre_in |-> xid.xid_in_data, usb_ok |-> usb_ok, ret |-> r.ret,
                  attempted |-> r.attempted, tx |-> r.tx,
                  fresh_at |-> last.fresh_at, eff |-> last.eff]
      /\ UNCHANGED <<peer_c, xin, xinput_devices, xdata, usbd_c, user_data, sb_sensitivity,
                     eeprom, detach, now, poll_timer, pc, edge>>

XidGetReport ==
    \E len \in {SIZEOF_DUKE_OUT, SIZEOF_SB_OUT} :
      \E recv \in XidRecvInputs(len) :
        LET r == getReport(xid, OutReport(len), len, recv, now) IN
        /\ xid' = r.x
        /\ last' = [op |-> "getReport", len |-> len, recv |-> recv,
                    pre_out |-> xid.xid_out_data, ret |-> r.ret, data |-> r.data,
                    since |-> now - last.fresh_at,
                    fresh_at |-> IF recv.len = len THEN now ELSE last.fresh_at,
                    eff |-> last.eff]
        /\ UNCHANGED <<peer_c, xin, xinput_devices, xdata, usbd_c, user_data, sb_sensitivity,
                       eeprom, detach, now, poll_timer, pc, edge>>

XidSetup ==
    \E req \in XidRequests :
      LET r == setup(xid, req, now) IN
      /\ xid' = r.x
      /\ last' = [op |-> "setup", kind |-> req.kind, ret |-> r.ret,
                  fresh_at |-> IF req.wIndexMatches /\ req.kind = "set_report_out"
                               THEN now ELSE last.fresh_at,
                  eff |-> last.eff]
      /\ UNCHANGED <<peer_c, xin, xinput_devices, xdata, usbd_c, user_data, sb_sensitivity,
                     eeprom, detach, now, poll_timer, pc, edge>>

InitXid ==
    /\ Boot(EepromBlank)
    /\ last = [op |-> "XID_()", fresh_at |-> 0, eff |-> DUKE]
    /\ edge = EdgeInit

NextXid ==
    \/ AdvanceTime({250, 251}, MaxNowXid)
    \/ XidSetType
    \/ XidSendReport
    \/ XidGetReport
    \/ XidSetup

SpecXid == InitXid /\ [][NextXid]_vars

----------------------------------------------------------------------------
(* Claims about the XID emulation *)

\* the first n bytes of a buffer (a function from 0) or of a sequence
Prefix(buf, n) == [i \in 0..(n - 1) |-> buf[i]]
PrefixSeq(sq, n) == [i \in 0..(n - 1) |-> sq[i + 1]]

\* C3: getReport caches and returns a fresh report when the endpoint read succeeds;
\* when it fails, the caller gets zeros if more than 500 ms have passed since the last
\* fresh report and the cached report unchanged otherwise; a fresh report restarts
\* the window.
C3_GetReportStaleness ==
    last.op = "getReport" =>
        IF last.recv.len = last.len
        THEN /\ last.ret = last.len
             /\ last.data = Prefix(last.recv.r, last.len)
             /\ Prefix(xid.xid_out_data, last.len) = Prefix(last.recv.r, last.len)
        ELSE /\ xid.xid_out_data = last.pre_out
             /\ IF last.since > 500
                THEN last.data = Zeros(last.len) /\ last.ret = 0
                ELSE last.data = Prefix(last.pre_out, last.len)

\* C3 witness: a read fails exactly 500 ms after a fresh report and the caller still
\* gets the cached, non-zero report
C3_Witness ==
    /\ last.op = "getReport" /\ last.recv.len # last.len
    /\ last.since = 500
    /\ last.data # Zeros(last.len)
    /\ last.data[3] = 255

\* C3 second case reached: the read fails 501 ms after the fresh report and zeros
\* are returned although the cache holds a report
C3_WitnessExpired ==
    /\ last.op = "getReport" /\ last.recv.len # last.len
    /\ last.since = 501
    /\ last.pre_out[3] = 255
    /\ last.data = Zeros(last.len)

\* C4 as stated: sendReport transmits exactly when the first min(len, buffer size)
\* bytes of data differ from the last-sent buffer, and it returns the number of
\* bytes it transmitted in the call.
C4_ReturnsBytesTransmitted ==
    last.op = "sendReport" =>
        LET n == MIN(last.len, XID_BUF_SIZE) IN
        /\ last.attempted <=> (Prefix(last.pre_in, n) # PrefixSeq(last.data, n))
        /\ last.ret = last.tx

\* C4 amended: sendReport transmits exactly when the first min(len, buffer size)
\* bytes of data differ from its local copy, which then holds those bytes; it returns
\* the result of the transmit call when it transmits (the length, or -1 when the
\* endpoint does not take the report) and min(len, buffer size) when it does not.
C4_SendReportAmended ==
    last.op = "sendReport" =>
        LET n == MIN(last.len, XID_BUF_SIZE) IN
        /\ last.attempted <=> (Prefix(last.pre_in, n) # PrefixSeq(last.data, n))
        /\ Prefix(xid.xid_in_data, n) = PrefixSeq(last.data, n)
        /\ \A i \in n..(XID_BUF_SIZE - 1) : xid.xid_in_data[i] = last.pre_in[i]
        /\ last.ret = IF last.attempted THEN (IF last.usb_ok THEN n ELSE -1) ELSE n
        /\ last.tx = IF last.attempted /\ last.usb_ok THEN n ELSE 0

\* C4 witness: a report equal to the local copy is not transmitted, yet the call
\* returns its length
C4_Witness ==
    /\ last.op = "sendReport" /\ ~last.attempted
    /\ last.tx = 0 /\ last.ret = SIZEOF_DUKE_IN
    /\ last.data[5] = 255

\* C5: setType(t) with t the current type changes nothing; otherwise the type becomes
\* t, the bus is detached, and it is attached again exactly when t is not
\* DISCONNECTED.  getType() returns the argument of the last setType that changed
\* the type, DUKE before any.
C5_SetType ==
    /\ getType(xid) = last.eff
    /\ last.op = "setType" =>
          IF last.arg = last.pre_type
          THEN xid.xid_type = last.pre_type /\ ~last.pulsed /\ detach = last.pre_detach
          ELSE xid.xid_type = last.arg /\ last.pulsed /\ (detach <=> last.arg = DISCONNECTED)

\* C5 witness: a switch to DISCONNECTED from another type leaves the bus detached
C5_Witness ==
    /\ last.op = "setType" /\ last.arg = DISCONNECTED /\ last.pre_type = STEELBATTALION
    /\ last.pulsed /\ detach /\ getType(xid) = DISCONNECTED

----------------------------------------------------------------------------
(* SpecToggle: the coordinator with a wireless pad whose chatpad keys are worked *)

ToggleEvents ==
    {EvAttach(XBOX360_WIRELESS), EvPacket(1, PktConnect),
     EvPacket(1, PktChatpad(XINPUT_CHATPAD_ORANGE, 0, 0)),
     EvPacket(1, PktChatpad(0, 0, 0)),
     EvPacket(1, PktChatpad(0, XINPUT_CHATPAD_Q, 0)),
     EvPacket(1, PktChatpad(XINPUT_CHATPAD_SHIFT, XINPUT_CHATPAD_A, XINPUT_CHATPAD_W)),
     EvPacket(1, PktChatpad(XINPUT_CHATPAD_SHIFT, XINPUT_CHATPAD_A, XINPUT_CHATPAD_Q))}

InitToggle ==
    /\ Boot(EepromBlank)
    /\ last = [op |-> "setup()"]
    /\ edge = EdgeInit

NextToggle ==
    \/ AdvanceTime({POLL_INTERVAL_MS}, MaxNowToggle)
    \/ MasterTask(ToggleEvents, CoordPeers)
    \/ PollTick(CoordIos)

SpecToggle == InitToggle /\ [][NextToggle]_vars

\* bit `mask` of a word
Bit(w, mask) == BitAnd(w, mask) # 0

\* C6: for a key held across consecutive edge queries exactly one of them, the first,
\* returns true: once a held key has been queried, one query has returned true for it.
C6_EdgeOncePerPress ==
    \A code \in EdgeCodes : edge[code].run >= 1 => edge[code].trues = 1

\* C10: in a cockpit mapping tick without a shift edge, the first query that sees a
\* toggle key held flips the key's bit of button word 2, and later queries of the
\* held key leave the bit alone.
C10_ToggleFlipsOnEdge ==
    (last.op = "master_task" /\ usbd_c[0].type = STEELBATTALION /\ ~last.shift_edge) =>
        \A k \in 1..Len(sb_chatpad_toggle_map) :
            LET code == sb_chatpad_toggle_map[k][1]
                mask == sb_chatpad_toggle_map[k][2]
                before == Bit(last.w2, mask)
                after == Bit(usbd_c[0].sb.in.wButtons[2], mask)
            IN /\ edge[code].run = 1 => after # before
               /\ edge[code].run >= 2 => after = before

\* the queried codes that are down on slot 0
CodesDown == {code \in EdgeCodes :
                 usbh_xinput_is_chatpad_pressed(xinput_devices[0], code) # 0}

\* C23: while at most three queried codes are down at the same time, a newly pressed
\* code gets its rising edge on the first was-pressed query made while it is down:
\* history slots held by codes that are no longer down never withhold it.
C23_EdgeWithinCapacity ==
    Cardinality(CodesDown) <= 3 =>
        \A code \in EdgeCodes : edge[code].run = 1 => edge[code].trues = 1

----------------------------------------------------------------------------
(* SpecMap: handle_sbattalion on slot 0, for a connected wireless pad in cockpit mode *)

\* the coordinator state [h, cls, usbd_c, user_data, sens, ee] after setup()
BootState(ee0) ==
    LET mi == master_init(ee0) IN
    [h |-> [devs |-> [i \in 0..(XINPUT_MAXGAMEPADS - 1) |-> ZeroDevice],
            xdata |-> Zeros(EP_MAXPKTSIZE)],
     cls |-> XinputConstructed, usbd_c |-> mi.usbd_c, user_data |-> mi.user_data,
     sens |-> mi.sens, ee |-> mi.ee]

\* the coordinator state after master_task() has run once for each event of evs, from k on
RECURSIVE RunTasks(_, _, _)
RunTasks(st, evs, k) ==
    IF k > Len(evs) THEN st
    ELSE RunTasks(master_task(st.h, st.cls, st.usbd_c, st.user_data, st.sens, st.ee,
                              evs[k], PeersAbsent, 0),
                  evs, k + 1)

\* receiver attached, pad linked, orange pressed and released: slot 0 is in cockpit mode
CockpitReady(ee0) ==
    RunTasks(BootState(ee0),
             <<EvAttach(XBOX360_WIRELESS), EvPacket(1, PktConnect),
               EvPacket(1, PktChatpad(XINPUT_CHATPAD_ORANGE, 0, 0)),
               EvPacket(1, PktChatpad(0, 0, 0))>>, 1)

\* accumulator values the pointer reaches by stick motion from the midpoint
MapAccumulators == {<<SBC_AIMING_MID, SBC_AIMING_MID>>, <<65500, 65500>>, <<100, 0>>}

\* the presets an EEPROM can hold at boot
MapEeproms == {EepromBlank, EepromHolding(200), EepromHolding(1200)}

\* pad states the decoder delivers: left-stick click, the right stick
MapPads ==
    {[ZeroPad EXCEPT !.wButtons = r[1], !.sThumbRX = r[2], !.sThumbRY = r[3]] :
        r \in {<<0, 7500, -7501>>, <<0, 32767, -32768>>,
               <<XINPUT_GAMEPAD_LEFT_THUMB, 32767, -32768>>,
               <<XINPUT_GAMEPAD_LEFT_THUMB, -32768, 32767>>}}

\* chatpad states the decoder delivers: nothing, ignition, ignition with hatch
MapChats ==
    {Zeros(3),
     (0 :> 0) @@ (1 :> XINPUT_CHATPAD_COMMA) @@ (2 :> 0),
     (0 :> 0) @@ (1 :> XINPUT_CHATPAD_COMMA) @@ (2 :> XINPUT_CHATPAD_P)}

InitMapFrom(st, acc) ==
    /\ xin = st.cls
    /\ xinput_devices = st.h.devs
    /\ xdata = st.h.xdata
    /\ usbd_c = st.usbd_c
    /\ user_data = [st.user_data EXCEPT ![0].vmouse_x = acc[1], ![0].vmouse_y = acc[2]]
    /\ sb_sensitivity = st.sens
    /\ eeprom = st.ee
    /\ xid = XidConstructed
    /\ detach = FALSE
    /\ now = 0
    /\ poll_timer = 0
    /\ pc = "task"
    /\ peer_c = PeerBoot
    /\ last = [op |-> "master_task", ticks |-> 0, at |-> 0, thumb_since |-> -1]
    /\ edge = EdgeInit

InitMap == \E ee0 \in MapEeproms, acc \in MapAccumulators : InitMapFrom(CockpitReady(ee0), acc)

\* one call of handle_sbattalion for slot 0, the decoder having delivered pad and chat.
\* at is the time of the call; thumb_since observes since when the calls have seen
\* the left-stick click held (-1: not held)
MapTickEffect(r, thumb) ==
    /\ xinput_devices' = [xinput_devices EXCEPT ![0] = r.x]
    /\ usbd_c' = [usbd_c EXCEPT ![0].sb.in = r.sb_in]
    /\ user_data' = [user_data EXCEPT ![0] = r.ud]
    /\ sb_sensitivity' = r.sens
    /\ eeprom' = r.ee
    /\ last' = [op |-> "handle_sbattalion", ticks |-> last.ticks + 1, at |-> now,
                thumb_since |-> IF ~thumb THEN -1
                                ELSE IF last.thumb_since >= 0 THEN last.thumb_since
                                ELSE now]

MapTick ==
    /\ last.ticks < MaxTicks
    /\ \E pad \in MapPads, chat \in MapChats :
         MapTickEffect(
             handle_sbattalion([xinput_devices[0] EXCEPT !.pad_state = pad,
                                                         !.chatpad_state = chat],
                               usbd_c[0].sb, user_data[0], sb_sensitivity, eeprom, now),
             BitAnd(pad.wButtons, XINPUT_GAMEPAD_LEFT_THUMB) # 0)
    /\ UNCHANGED <<peer_c, xin, xdata, xid, detach, now, poll_timer, pc, edge>>

NextMap ==
    \/ AdvanceTime({250, 251}, MaxNowMap)
    \/ MapTick

SpecMap == InitMap /\ [][NextMap]_vars

\* C8: in every report handle_sbattalion leaves, an ignition bit set in button word 0
\* comes with aimingX = 0, aimingY = 0 and a clear cockpit-hatch bit.
C8_IgnitionInvariant ==
    LET in == usbd_c[0].sb.in IN
    Bit(in.wButtons[0], SBC_W0_IGNITION) =>
        in.aimingX = 0 /\ in.aimingY = 0 /\ ~Bit(in.wButtons[0], SBC_W0_COCKPITHATCH)

\* C8 witness: ignition and hatch keys held together with the pointer off zero: the
\* report carries ignition, no hatch and zero aiming
C8_Witness ==
    /\ last.op = "handle_sbattalion"
    /\ xinput_devices[0].chatpad_state[1] = XINPUT_CHATPAD_COMMA
    /\ xinput_devices[0].chatpad_state[2] = XINPUT_CHATPAD_P
    /\ user_data[0].vmouse_x # 0 /\ user_data[0].vmouse_y # 0
    /\ Bit(usbd_c[0].sb.in.wButtons[0], SBC_W0_IGNITION)
    /\ ~Bit(usbd_c[0].sb.in.wButtons[0], SBC_W0_COCKPITHATCH)
    /\ usbd_c[0].sb.in.aimingX = 0 /\ usbd_c[0].sb.in.aimingY = 0

\* C9: after every cockpit mapping tick vmouse_x and vmouse_y lie in 0..65535, and a
\* tick that sees the left-stick click held for more than 500 ms leaves both at
\* SBC_AIMING_MID.
C9_PointerRangeAndRecentre ==
    /\ user_data[0].vmouse_x \in 0..65535
    /\ user_data[0].vmouse_y \in 0..65535
    /\ (last.op = "handle_sbattalion" /\ last.thumb_since >= 0
          /\ last.at - last.thumb_since > 500) =>
          /\ user_data[0].vmouse_x = SBC_AIMING_MID
          /\ user_data[0].vmouse_y = SBC_AIMING_MID

\* C9 witness: the pointer, driven away from the midpoint, is back on it after the
\* click has been held for 501 ms
C9_Witness ==
    /\ last.op = "handle_sbattalion" /\ last.thumb_since >= 0
    /\ last.at - last.thumb_since = 501
    /\ sb_sensitivity = 200
    /\ xinput_devices[0].pad_state.sThumbRX = 32767
    /\ user_data[0].vmouse_x = SBC_AIMING_MID /\ user_data[0].vmouse_y = SBC_AIMING_MID

\* C9 second case reached: the pointer is held at the upper limit by the clamp
C9_WitnessClamped ==
    /\ last.op = "handle_sbattalion"
    /\ xinput_devices[0].pad_state.sThumbRX = 32767
    /\ user_data[0].vmouse_x = 65535 /\ user_data[0].vmouse_y = 65535

----------------------------------------------------------------------------
(* SpecHost: the host driver alone: Init, Release and Poll of one class instance *)

\* the device families that enumerate on the port
HostFamilies == {XBOX360_WIRED, XBOX360_WIRELESS, XBOXONE, XBOXOG}

\* reports of n bytes in each family's layout, v being the value of the bytes that carry
\* the buttons and the last stick
HostWired(n, v) == Pkt(n, (1 :> 20) @@ (2 :> v) @@ (12 :> v) @@ (13 :> v))
HostWireless(n, v) == Pkt(n, (1 :> 1) @@ (5 :> 19) @@ (6 :> v) @@ (16 :> v) @@ (17 :> v))
HostXboxOne(n, v) == Pkt(n, (0 :> 32) @@ (4 :> v) @@ (16 :> v) @@ (17 :> v))
HostXboxOG(n, v) == Pkt(n, (1 :> 20) @@ (2 :> v) @@ (18 :> v) @@ (19 :> v))

\* the packets the in endpoint 1 delivers: full-length and one-byte-short reports, the
\* wireless link reports
HostPackets ==
    {HostWired(n, v) : n \in {13, 14}, v \in {255}} \cup
    {HostWireless(n, v) : n \in {17, 29}, v \in {255}} \cup
    {HostXboxOne(n, v) : n \in {17, 18}, v \in {255}} \cup
    {HostXboxOG(n, v) : n \in {19, 20}, v \in {255}} \cup
    {PktConnect, PktDisconnect}

InitHost ==
    /\ Boot(EepromBlank)
    /\ last = [op |-> "XINPUT()"]
    /\ edge = EdgeInit

\* UsbHost.Task() finds a device on the port and calls Init
HostInit ==
    /\ xin.bAddress = 0
    /\ \E type \in HostFamilies :
         LET r == UsbHostTask([devs |-> xinput_devices, xdata |-> xdata], xin,
                              EvAttach(type), now)
         IN /\ xin' = r.cls
            /\ xinput_devices' = r.h.devs
            /\ xdata' = r.h.xdata
            /\ last' = [op |-> "Init"]
    /\ UNCHANGED <<peer_c, usbd_c, user_data, sb_sensitivity, eeprom, xid, detach, now,
                   poll_timer, pc, edge>>

\* UsbHost.Task() finds the device gone and calls Release
HostRelease ==
    /\ xin.bAddress # 0
    /\ LET r == UsbHostTask([devs |-> xinput_devices, xdata |-> xdata], xin, EvDetach, now)
       IN /\ xin' = r.cls
          /\ xinput_devices' = r.h.devs
          /\ xdata' = r.h.xdata
          /\ last' = [op |-> "Release"]
    /\ UNCHANGED <<peer_c, usbd_c, user_data, sb_sensitivity, eeprom, xid, detach, now,
                   poll_timer, pc, edge>>

\* UsbHost.Task() calls Poll; the in endpoint 1 delivers pkt.  Endpoint 1 is the first
\* Poll reads, so ParseInputData sees the records as they are before the call: last
\* holds the packet's length, the family it is decoded as, whether it is a wireless pad
\* event, what ParseInputData returns and whether it changes a record
HostPoll ==
    /\ xin.bIsReady
    /\ \E pkt \in HostPackets :
         LET h == [devs |-> xinput_devices, xdata |-> xdata]
             r == UsbHostTask(h, xin, EvPacket(1, pkt), now)
             xp == DeviceOfEndpoint(xinput_devices, 1)
             p == ParseInputData([h EXCEPT !.xdata = CopyToXdata(@, pkt)], xp, 1, xin, now)
         IN /\ xin' = r.cls
            /\ xinput_devices' = r.h.devs
            /\ xdata' = r.h.xdata
            /\ last' = [op |-> "Poll", len |-> Len(pkt), pkt |-> pkt,
                        type |-> IF xin.dev_type = XBOX360_WIRELESS THEN XBOX360_WIRELESS
                                 ELSE IF xp # NoDevice THEN xinput_devices[xp].type
                                 ELSE XINPUT_UNKNOWN,
                        pad_event |-> Len(pkt) >= 6 /\ BitAnd(pkt[2], 1) # 0 /\ pkt[6] = 19,
                        linked |-> xp # NoDevice,
                        ret |-> p.ret, changed |-> p.h.devs # xinput_devices]
    /\ UNCHANGED <<peer_c, usbd_c, user_data, sb_sensitivity, eeprom, xid, detach, now,
                   poll_timer, pc, edge>>

NextHost ==
    \/ AdvanceTime({20}, MaxNowHost)
    \/ HostInit
    \/ HostRelease
    \/ HostPoll

SpecHost == InitHost /\ [][NextHost]_vars

\* the shortest report each family's decoder is said to accept
MinimumLength(type) ==
    CASE type = XBOX360_WIRED -> 14
      [] type = XBOX360_WIRELESS -> 18
      [] type = XBOXONE -> 18
      [] type = XBOXOG -> 20
      [] OTHER -> 0

\* C7: a report one byte shorter than its family's minimum (13 wired, 17 wireless pad
\* event and next-generation, 19 legacy) makes ParseInputData return false and leaves
\* every field of the record unchanged.
C7_ShortPacketRejected ==
    (/\ last.op = "Poll"
     /\ last.linked
     /\ last.len = MinimumLength(last.type) - 1
     /\ last.type = XBOX360_WIRELESS => last.pad_event)
        => (~last.ret /\ ~last.changed)

\* the packet carries the header of its family's pad-state report (usbh_xinput.cpp:
\* wired 00 14, wireless bit 0 of byte 1 with 13 in byte 5, next-generation 20,
\* legacy 14 in byte 1)
EncodesPadReport(type, pkt) ==
    CASE type = XBOX360_WIRED -> Len(pkt) >= 2 /\ pkt[1] = 0 /\ pkt[2] = 20
      [] type = XBOX360_WIRELESS -> Len(pkt) >= 6 /\ BitAnd(pkt[2], 1) # 0 /\ pkt[6] = 19
      [] type = XBOXONE -> Len(pkt) >= 1 /\ pkt[1] = 32
      [] type = XBOXOG -> Len(pkt) >= 2 /\ pkt[2] = 20
      [] OTHER -> FALSE

\* C18: ParseInputData returns true only for a packet that encodes a pad-state report;
\* a packet consumed internally (here the wireless presence report that links a pad)
\* returns false.
C18_TrueOnlyForPadReport ==
    (last.op = "Poll" /\ last.ret) => EncodesPadReport(last.type, last.pkt)

----------------------------------------------------------------------------
(* SpecBus: the coordinator with a wireless receiver and three pads, and the three peer
   boards on the I2C bus *)

\* millis() is not advanced beyond this value in the bus specification
MaxNowBus == 4

\* the exchange of master_task with the peer of one slot: c is the slot's record as
\* mapped, p the peer's usbd_c[0], err what endTransmission returns.  The peer's
\* onReceive handler runs when the write is acknowledged, its onRequest handler when
\* the read request follows.
\* returns [c, p, asked, answer]: the slot, the peer's usbd_c[0], whether a read
\* request was issued and the bytes the peer answered it with
BusSlotResult(c, p1, err, asked) ==
    [c |-> PeerExchange(c, [error |-> err, resp |-> i2c_send_data(p1)]),
     p |-> p1, asked |-> asked,
     answer |-> IF asked THEN i2c_send_data(p1) ELSE <<>>]

BusSlot(c, p, err) ==
    BusSlotResult(c, IF err = 0 THEN i2c_get_data(p, PeerMessage(c)) ELSE p, err,
                  err = 0 /\ c.type \in {DUKE, STEELBATTALION})

BusEvents ==
    {EvPacket(3, PktChatpad(XINPUT_CHATPAD_ORANGE, 0, 0)),
     EvPacket(3, PktChatpad(XINPUT_CHATPAD_GREEN, 0, 0)),
     EvPacket(3, PktChatpad(0, 0, 0))}

\* the peer boards whose own loop() and bus handlers the specification steps; the
\* others only take part in the coordinator's exchanges
BusPeers == {1}

\* what endTransmission returns for the peers 1..3: all acknowledge, peer 1 does not,
\* none does
BusErrors ==
    {[i \in 1..(MAX_GAMEPADS - 1) |-> 0],
     [i \in 1..(MAX_GAMEPADS - 1) |-> IF i = 1 THEN 2 ELSE 0],
     [i \in 1..(MAX_GAMEPADS - 1) |-> 2]}

\* the console of a peer: takes the in report, sends nothing or a rumble report
BusIos ==
    {[send_ok |-> TRUE, recv |-> RecvNothing],
     [send_ok |-> TRUE, recv |-> RecvReport(SIZEOF_DUKE_OUT, 3 :> 128)]}

\* packets a peer can find on the bus besides the coordinator's: the ping alone and
\* with bytes after it, a status
\* byte alone, a status packet of the wrong length for its family, a foreign packet
BusPackets ==
    {<<170>>, <<170>> \o BytesOf(OutReport(SIZEOF_DUKE_IN), SIZEOF_DUKE_IN), <<241>>,
     <<242>> \o BytesOf(OutReport(SIZEOF_DUKE_IN), SIZEOF_DUKE_IN),
     <<241>> \o BytesOf(OutReport(SIZEOF_DUKE_IN), SIZEOF_DUKE_IN),
     <<16, 1, 2>>}

\* what master_task() leaves on the coordinator and the peers: r is its result with no
\* exchange made, x the exchanges of the slots 1..3
BusTaskEffect(r, x, errs) ==
    /\ xinput_devices' = r.h.devs
    /\ xdata' = r.h.xdata
    /\ xin' = r.cls
    /\ usbd_c' = [i \in 0..(MAX_GAMEPADS - 1) |-> IF i = 0 THEN r.usbd_c[0] ELSE x[i].c]
    /\ user_data' = r.user_data
    /\ sb_sensitivity' = r.sens
    /\ eeprom' = r.ee
    /\ peer_c' = [i \in 1..(MAX_GAMEPADS - 1) |-> [peer_c[i] EXCEPT !.c = x[i].p]]
    /\ last' = [op |-> "master_task", errs |-> errs, pre |-> usbd_c, pre_peer |-> peer_c,
                prev_errs |-> IF last.op = "master_task" THEN last.errs
                              ELSE [i \in 1..(MAX_GAMEPADS - 1) |-> 0],
                mapped |-> r.usbd_c,
                asked |-> [i \in 1..(MAX_GAMEPADS - 1) |-> x[i].asked],
                answer |-> [i \in 1..(MAX_GAMEPADS - 1) |-> x[i].answer]]

BusExchanges(r, errs) ==
    BusTaskEffect(r, [i \in 1..(MAX_GAMEPADS - 1) |->
                         BusSlot(r.usbd_c[i], peer_c[i].c, errs[i])], errs)

\* loop() on the coordinator: master_task() with the peers on the bus.  An exchange
\* that fails leaves the slot as mapped, so the slots are mapped first and exchanged
\* then
BusTask ==
    /\ \E ev \in BusEvents, errs \in BusErrors :
         BusExchanges(master_task([devs |-> xinput_devices, xdata |-> xdata], xin, usbd_c,
                                  user_data, sb_sensitivity, eeprom, ev, PeersAbsent, now),
                      errs)
    /\ UNCHANGED <<xid, detach, now, poll_timer, pc, edge>>

\* loop() on the peer board i
BusPeerLoop ==
    /\ \E i \in BusPeers, io \in BusIos :
         /\ peer_c' = [peer_c EXCEPT ![i] = PeerLoop(@, io, now)]
         /\ last' = [op |-> "loop", peer |-> i]
    /\ UNCHANGED <<xin, xinput_devices, xdata, usbd_c, user_data, sb_sensitivity, eeprom,
                   xid, detach, now, poll_timer, pc, edge>>

\* the bus delivers a packet to the peer board i: its onReceive handler runs
BusReceive ==
    /\ \E i \in BusPeers, msg \in BusPackets :
         /\ peer_c' = [peer_c EXCEPT ![i].c = i2c_get_data(@, msg)]
         /\ last' = [op |-> "receive", peer |-> i, msg |-> msg, pre |-> peer_c[i].c,
                      available |-> i2c_get_data_available(msg)]
    /\ UNCHANGED <<xin, xinput_devices, xdata, usbd_c, user_data, sb_sensitivity, eeprom,
                   xid, detach, now, poll_timer, pc, edge>>

\* a read request reaches the peer board i (any of the three): its onRequest handler runs
BusRequest ==
    /\ \E i \in 1..(MAX_GAMEPADS - 1) :
         last' = [op |-> "request", peer |-> i, answer |-> i2c_send_data(peer_c[i].c)]
    /\ UNCHANGED <<xin, xinput_devices, xdata, usbd_c, user_data, sb_sensitivity, eeprom,
                   xid, detach, now, poll_timer, pc, peer_c, edge>>

\* receiver attached and three pads linked: the slots 0, 1 and 2 are live
BusReady ==
    RunTasks(BootState(EepromBlank),
             <<EvAttach(XBOX360_WIRELESS), EvPacket(1, PktConnect),
               EvPacket(3, PktConnect), EvPacket(5, PktConnect)>>, 1)

InitBusFrom(st) ==
    /\ xin = st.cls
    /\ xinput_devices = st.h.devs
    /\ xdata = st.h.xdata
    /\ usbd_c = st.usbd_c
    /\ user_data = st.user_data
    /\ sb_sensitivity = st.sens
    /\ eeprom = st.ee
    /\ xid = XidConstructed
    /\ detach = FALSE
    /\ now = 0
    /\ poll_timer = 0
    /\ pc = "task"
    /\ peer_c = PeerBoot
    /\ last = [op |-> "setup()"]
    /\ edge = EdgeInit

InitBus == InitBusFrom(BusReady)

NextBus ==
    \/ AdvanceTime({POLL_INTERVAL_MS}, MaxNowBus)
    \/ BusTask
    \/ BusPeerLoop
    \/ BusReceive
    \/ BusRequest

SpecBus == InitBus /\ [][NextBus]_vars

\* the out report of family f in a usbd_controller_t, and its size
OutOf(c, f) == IF f = DUKE THEN c.duke.out ELSE c.sb.out
SizeOfOut(f) == IF f = DUKE THEN SIZEOF_DUKE_OUT ELSE SIZEOF_SB_OUT
\* the in report of family f as the bytes the coordinator holds / the peer holds
CoordInBytes(c, f) == IF f = DUKE THEN DukeInBytes(c.duke.in) ELSE SbInBytes(c.sb.in)
PeerInBytes(c, f) ==
    IF f = DUKE THEN BytesOf(c.duke.in, SIZEOF_DUKE_IN) ELSE BytesOf(c.sb.in, SIZEOF_SB_IN)

\* C11: after a master_task in which slot i (1..3) has family F in {standard, cockpit}
\* and the write to peer i succeeded, the peer's family is F and its in report is the
\* coordinator's mapped report; the peer answered the read with exactly the size of
\* F's out report; and the coordinator's slot-i out report equals the peer's.
C11_ExchangeMirrorsSlot ==
    last.op = "master_task" =>
        \A i \in 1..(MAX_GAMEPADS - 1) :
            (last.mapped[i].type \in {DUKE, STEELBATTALION} /\ last.errs[i] = 0) =>
                LET f == last.mapped[i].type IN
                /\ usbd_c[i].type = f
                /\ peer_c[i].c.type = f
                /\ PeerInBytes(peer_c[i].c, f) = CoordInBytes(last.mapped[i], f)
                /\ PeerInBytes(peer_c[i].c, f) = CoordInBytes(usbd_c[i], f)
                /\ last.asked[i]
                /\ Len(last.answer[i]) = SizeOfOut(f)
                /\ OutOf(usbd_c[i], f) = OutOf(peer_c[i].c, f)

\* a standard slot whose peer had taken a console report the coordinator did not hold
C11_Witness ==
    /\ last.op = "master_task" /\ last.errs[1] = 0 /\ last.mapped[1].type = DUKE
    /\ last.pre_peer[1].c.type # DUKE
    /\ last.pre[1].duke.out # last.pre_peer[1].c.duke.out
    /\ usbd_c[1].duke.out = peer_c[1].c.duke.out

\* a cockpit slot whose peer was in standard mode before the exchange
C11_WitnessCockpit ==
    /\ last.op = "master_task" /\ last.errs[1] = 0 /\ last.mapped[1].type = STEELBATTALION
    /\ last.pre_peer[1].c.type = DUKE
    /\ peer_c[1].c.type = STEELBATTALION
    /\ Len(last.answer[1]) = SIZEOF_SB_OUT

\* C12: a status packet (first byte 0xFx) a peer receives populates its slot only when
\* its length is 1 + the in-report size of the declared family; on a mismatch the slot
\* (target family and both in reports) is left as it was.
C12_MismatchLeavesSlot ==
    (last.op = "receive" /\ BitAnd(last.msg[1], 240) = 240) =>
        LET f == BitAnd(last.msg[1], 15)
            size == IF f = DUKE THEN SIZEOF_DUKE_IN
                    ELSE IF f = STEELBATTALION THEN SIZEOF_SB_IN ELSE 0
        IN (f \notin {DUKE, STEELBATTALION} \/ Len(last.msg) # 1 + size) =>
               /\ peer_c[last.peer].c.type = last.pre.type
               /\ peer_c[last.peer].c.duke.in = last.pre.duke.in
               /\ peer_c[last.peer].c.sb.in = last.pre.sb.in

\* C13: when endTransmission reports an error for peer i, no read request is made for
\* that peer in this tick and slot i's out reports are unchanged; the peers after it
\* are still written to, and a tick in which the write succeeds after one in which it
\* failed makes the exchange.
C13_SendFailureSkipsPeer ==
    last.op = "master_task" =>
        \A i \in 1..(MAX_GAMEPADS - 1) :
            /\ last.errs[i] # 0 =>
                 /\ ~last.asked[i] /\ last.answer[i] = <<>>
                 /\ usbd_c[i].duke.out = last.pre[i].duke.out
                 /\ usbd_c[i].sb.out = last.pre[i].sb.out
                 /\ peer_c[i].c = last.pre_peer[i].c
                 /\ \A j \in (i + 1)..(MAX_GAMEPADS - 1) :
                       last.errs[j] = 0 => peer_c[j].c.type = last.mapped[j].type
            /\ (last.prev_errs[i] # 0 /\ last.errs[i] = 0) =>
                 /\ peer_c[i].c.type = last.mapped[i].type
                 /\ last.mapped[i].type \in {DUKE, STEELBATTALION} =>
                       /\ last.asked[i]
                       /\ OutOf(usbd_c[i], last.mapped[i].type) =
                              OutOf(peer_c[i].c, last.mapped[i].type)

\* the write to peer 1 fails while that peer holds a console report the coordinator has
\* not fetched, and peer 2 is asked in the same tick
C13_Witness ==
    /\ last.op = "master_task" /\ last.errs[1] # 0 /\ last.errs[2] = 0
    /\ last.mapped[1].type = DUKE
    /\ peer_c[1].c.type = DUKE /\ peer_c[1].c.duke.out # usbd_c[1].duke.out
    /\ last.asked[2]

\* the write to peer 1 succeeds in the tick after one in which it failed
C13_WitnessRetry ==
    /\ last.op = "master_task" /\ last.prev_errs[1] # 0 /\ last.errs[1] = 0
    /\ last.asked[1] /\ last.pre[1].duke.out # usbd_c[1].duke.out

\* C20: a peer answers a read request with exactly its out report of the family set
\* locally (duke.out when standard, sb.out when cockpit) and with exactly one
\* placeholder byte otherwise.
C20_RequestAnswer ==
    last.op = "request" =>
        LET c == peer_c[last.peer].c IN
        IF c.type = DUKE THEN last.answer = BytesOf(c.duke.out, SIZEOF_DUKE_OUT)
        ELSE IF c.type = STEELBATTALION THEN last.answer = BytesOf(c.sb.out, SIZEOF_SB_OUT)
        ELSE Len(last.answer) = 1

\* a request answered by a peer whose family is neither standard nor cockpit
C20_Witness ==
    /\ last.op = "request" /\ peer_c[last.peer].c.type \notin {DUKE, STEELBATTALION}
    /\ Len(last.answer) = 1

\* a request answered by a peer in cockpit mode
C20_WitnessCockpit ==
    /\ last.op = "request" /\ peer_c[last.peer].c.type = STEELBATTALION
    /\ Len(last.answer) = SIZEOF_SB_OUT

\* C21: a received transaction whose first byte is 0xAA leaves the peer's usbd_c[0]
\* (type, in reports, out reports) as it was, whatever bytes follow, and nothing of the
\* transaction is left to read.
C21_PingChangesNothing ==
    (last.op = "receive" /\ last.msg[1] = 170) =>
        /\ peer_c[last.peer].c = last.pre
        /\ last.available = 0

\* a ping followed by twenty bytes reaches a peer that is in cockpit mode
C21_Witness ==
    /\ last.op = "receive" /\ last.msg[1] = 170 /\ Len(last.msg) > 1
    /\ last.pre.type = STEELBATTALION

----------------------------------------------------------------------------
(* SpecFeedback: Poll's out-endpoint pass for one pad, wired or behind the wireless
   receiver, while the application changes what it requests *)

\* millis() is not advanced beyond this value in the feedback specification
MaxNowFeedback == 3002

\* the host driver after Init of a wired pad / of the receiver with one pad linked
FeedbackWired == UsbHostTask(BootState(EepromBlank).h, XinputConstructed,
                             EvAttach(XBOX360_WIRED), 0)
FeedbackWirelessLinked(u) == UsbHostTask(u.h, u.cls, EvPacket(1, PktConnect), 0)
FeedbackWireless ==
    FeedbackWirelessLinked(UsbHostTask(BootState(EepromBlank).h, XinputConstructed,
                                       EvAttach(XBOX360_WIRELESS), 0))

\* what the application requests of record 0: the two rumble values (handle_duke) and
\* the chatpad LED (master_task)
FeedbackRequests ==
    {[l |-> 0, r |-> 0, chatpad_led |-> XINPUT_CHATPAD_GREEN],
     [l |-> 128, r |-> 128, chatpad_led |-> XINPUT_CHATPAD_GREEN],
     [l |-> 0, r |-> 0, chatpad_led |-> XINPUT_CHATPAD_ORANGE],
     [l |-> 128, r |-> 128, chatpad_led |-> XINPUT_CHATPAD_ORANGE]}

\* what in endpoint 1 delivers during a Poll: nothing, or (wireless) a pad event with
\* the Xbox button held / released
FeedbackPackets(cls) ==
    IF cls.dev_type = XBOX360_WIRELESS
    THEN {NoPacket, PktPad(XINPUT_GAMEPAD_XBOX_BUTTON, 0, 0, 0, 0, 0, 0),
          PktPad(0, 0, 0, 0, 0, 0, 0)}
    ELSE {NoPacket}

InitFeedbackFrom(u, st) ==
    /\ xin = u.cls
    /\ xinput_devices = u.h.devs
    /\ xdata = u.h.xdata
    /\ usbd_c = st.usbd_c
    /\ user_data = st.user_data
    /\ sb_sensitivity = st.sens
    /\ eeprom = st.ee
    /\ xid = XidConstructed
    /\ detach = FALSE
    /\ now = 0
    /\ poll_timer = 0
    /\ pc = "task"
    /\ peer_c = PeerBoot
    /\ last = [op |-> "Init"]
    /\ edge = EdgeInit

InitFeedback ==
    \/ InitFeedbackFrom(FeedbackWired, BootState(EepromBlank))
    \/ InitFeedbackFrom(FeedbackWireless, BootState(EepromBlank))

FeedbackRequest ==
    /\ xinput_devices[0].bAddress # 0
    /\ \E rq \in FeedbackRequests :
         xinput_devices' = [xinput_devices EXCEPT ![0].lValue_requested = rq.l,
                                                  ![0].rValue_requested = rq.r,
                                                  ![0].chatpad_led_requested = rq.chatpad_led]
    /\ last' = [op |-> "request"]
    /\ UNCHANGED <<xin, xdata, usbd_c, user_data, sb_sensitivity, eeprom, xid, detach, now,
                   poll_timer, pc, peer_c, edge>>

\* what a Poll leaves: r is what UsbHost.Task() returns, mid the driver state when the
\* loop of Poll reaches out endpoint 2 (in endpoint 1 read and parsed)
FeedbackPollEffect(r, mid) ==
    /\ xin' = r.cls
    /\ xinput_devices' = r.h.devs
    /\ xdata' = r.h.xdata
    /\ last' = [op |-> "Poll", at |-> now, pre |-> mid.devs[0], post |-> r.h.devs[0],
                xdata |-> r.h.xdata]

\* UsbHost.Task() calls Poll
FeedbackPoll ==
    /\ xin.bIsReady
    /\ \E pkt \in FeedbackPackets(xin) :
         FeedbackPollEffect(
             UsbHostTask([devs |-> xinput_devices, xdata |-> xdata], xin,
                         EvPacket(1, pkt), now),
             IF pkt = NoPacket THEN [devs |-> xinput_devices, xdata |-> xdata]
             ELSE ParseInputData([devs |-> xinput_devices, xdata |-> CopyToXdata(xdata, pkt)],
                                 DeviceOfEndpoint(xinput_devices, 1), 1, xin, now).h)
    /\ UNCHANGED <<usbd_c, user_data, sb_sensitivity, eeprom, xid, detach, now,
                   poll_timer, pc, peer_c, edge>>

NextFeedback ==
    \/ AdvanceTime({500, 1001}, MaxNowFeedback)
    \/ FeedbackRequest
    \/ FeedbackPoll

SpecFeedback == InitFeedback /\ [][NextFeedback]_vars

\* the conditions of the priority list, on the record d as the pass finds it at time t
WantsRumble(d) ==
    d.lValue_requested # d.lValue_actual \/ d.rValue_requested # d.rValue_actual
WantsLed(d) == d.led_requested # d.led_actual
WantsChatpadInit(d) == d.type = XBOX360_WIRELESS /\ d.chatpad_initialised = 0
WantsChatpadLed(d) ==
    d.type = XBOX360_WIRELESS /\ d.chatpad_led_requested # d.chatpad_led_actual
WantsPowerOff(d, t) ==
    /\ d.type = XBOX360_WIRELESS
    /\ BitAnd(d.pad_state.wButtons, XINPUT_GAMEPAD_XBOX_BUTTON) # 0
    /\ Elapsed(t, d.timer_poweroff) > 1000
WantsKeepalive(d, t) == Elapsed(t, d.timer_periodic) > 1000

\* the actions a pass has taken, read off the record before (d) and after (e) it
FiredRumble(d, e) == e.lValue_actual # d.lValue_actual \/ e.rValue_actual # d.rValue_actual
FiredLed(d, e) == e.led_actual # d.led_actual
FiredChatpadInit(d, e) == d.chatpad_initialised = 0 /\ e.chatpad_initialised # 0
FiredChatpadLed(d, e) == e.chatpad_led_actual # d.chatpad_led_actual
FiredPowerOff(d, e) ==
    /\ BitAnd(d.pad_state.wButtons, XINPUT_GAMEPAD_XBOX_BUTTON) # 0
    /\ e.timer_poweroff # d.timer_poweroff
FiredKeepalive(d, e, t) == e.timer_periodic = t /\ d.timer_periodic # t

\* the ranks (1 = highest priority) of the actions fired between d and e
Fired(d, e, t) ==
    {k \in 1..6 :
        \/ k = 1 /\ FiredRumble(d, e)
        \/ k = 2 /\ FiredLed(d, e)
        \/ k = 3 /\ FiredChatpadInit(d, e)
        \/ k = 4 /\ FiredChatpadLed(d, e)
        \/ k = 5 /\ FiredPowerOff(d, e)
        \/ k = 6 /\ FiredKeepalive(d, e, t)}

\* the ranks of the conditions that hold on d at time t
Wanted(d, t) ==
    {k \in 1..6 :
        \/ k = 1 /\ WantsRumble(d)
        \/ k = 2 /\ WantsLed(d)
        \/ k = 3 /\ WantsChatpadInit(d)
        \/ k = 4 /\ WantsChatpadLed(d)
        \/ k = 5 /\ WantsPowerOff(d, t)
        \/ k = 6 /\ WantsKeepalive(d, t)}

\* C14: in one Poll pass over a pad's out endpoint at most one action of the priority
\* list (rumble, LED, chatpad init, chatpad LED sync, power-off, keepalive) fires, and
\* never one whose rank is below that of a condition that holds.
C14_OneFeedbackActionPerPass ==
    last.op = "Poll" =>
        /\ Cardinality(Fired(last.pre, last.post, last.at)) <= 1
        /\ \A k \in Fired(last.pre, last.post, last.at) :
              \A j \in Wanted(last.pre, last.at) : j >= k

\* a pass that finds rumble and LED both pending and sends the rumble only
C14_Witness ==
    /\ last.op = "Poll"
    /\ {1, 2} \subseteq Wanted(last.pre, last.at)
    /\ Fired(last.pre, last.post, last.at) = {1}

\* a pass that powers the pad off: the Xbox button held for more than 1000 ms and
\* nothing of higher priority pending
C14_WitnessPowerOff ==
    last.op = "Poll" /\ Fired(last.pre, last.post, last.at) = {5}

----------------------------------------------------------------------------
(* SpecDuke: handle_duke on slot 0, for a linked wireless pad in standard mode *)

\* receiver attached, pad linked: slot 0 is in standard mode
DukeReady ==
    RunTasks(BootState(EepromBlank),
             <<EvAttach(XBOX360_WIRELESS), EvPacket(1, PktConnect)>>, 1)

\* pad states the decoder delivers: at rest, A alone, the right-stick click alone and
\* with a D-pad direction, B with the sticks deflected
DukePads ==
    {ZeroPad,
     [ZeroPad EXCEPT !.wButtons = XINPUT_GAMEPAD_A],
     [ZeroPad EXCEPT !.wButtons = XINPUT_GAMEPAD_RIGHT_THUMB],
     [ZeroPad EXCEPT !.wButtons = XINPUT_GAMEPAD_RIGHT_THUMB + XINPUT_GAMEPAD_DPAD_UP],
     [ZeroPad EXCEPT !.wButtons = XINPUT_GAMEPAD_RIGHT_THUMB + XINPUT_GAMEPAD_DPAD_LEFT],
     [ZeroPad EXCEPT !.wButtons = XINPUT_GAMEPAD_B, !.bLeftTrigger = 255,
                     !.sThumbLX = -32768, !.sThumbRX = 32767, !.sThumbRY = -32768]}

\* millis() is not advanced beyond this value in the standard-mapping specification
MaxNowDuke == 4

\* the high byte of the rumble word the console sends
DukeRumble == {0, 255}

InitDukeFrom(st) ==
    /\ xin = st.cls
    /\ xinput_devices = st.h.devs
    /\ xdata = st.h.xdata
    /\ usbd_c = st.usbd_c
    /\ user_data = st.user_data
    /\ sb_sensitivity = st.sens
    /\ eeprom = st.ee
    /\ xid = XidConstructed
    /\ detach = FALSE
    /\ now = 0
    /\ poll_timer = 0
    /\ pc = "task"
    /\ peer_c = PeerBoot
    /\ last = [op |-> "master_task"]
    /\ edge = EdgeInit

InitDuke == InitDukeFrom(DukeReady)

\* what one call of handle_duke for slot 0 leaves; pad is the pad state it mapped, ud0
\* the user data it found
DukeTickEffect(r, pad, ud0) ==
    /\ xinput_devices' = [xinput_devices EXCEPT ![0] = r.x]
    /\ usbd_c' = [usbd_c EXCEPT ![0].duke.in = r.duke_in]
    /\ user_data' = [user_data EXCEPT ![0] = r.ud]
    /\ last' = [op |-> "handle_duke", pad |-> pad, modifiers |-> ud0.modifiers]

\* one call of handle_duke for slot 0, the decoder having delivered pad
DukeTick ==
    /\ \E pad \in DukePads :
         DukeTickEffect(handle_duke([xinput_devices[0] EXCEPT !.pad_state = pad],
                                    usbd_c[0].duke, user_data[0]),
                        pad, user_data[0])
    /\ UNCHANGED <<xin, xdata, sb_sensitivity, eeprom, xid, detach, now, poll_timer, pc,
                   peer_c, edge>>

\* loop(): a poll tick in which the console sends a rumble report
DukePoll ==
    /\ Elapsed(now, poll_timer) >= POLL_INTERVAL_MS
    /\ \E v \in DukeRumble :
         LET r == PollTickBody(xid, detach, usbd_c[0],
                               [send_ok |-> TRUE,
                                recv |-> RecvReport(SIZEOF_DUKE_OUT, 3 :> v)], now)
         IN /\ xid' = r.x
            /\ detach' = r.detach
            /\ usbd_c' = [usbd_c EXCEPT ![0] = r.usbd_c0]
    /\ poll_timer' = now
    /\ last' = [op |-> "poll"]
    /\ UNCHANGED <<xin, xinput_devices, xdata, user_data, sb_sensitivity, eeprom, now, pc,
                   peer_c, edge>>

NextDuke ==
    \/ AdvanceTime({POLL_INTERVAL_MS}, MaxNowDuke)
    \/ DukeTick
    \/ DukePoll

SpecDuke == InitDuke /\ [][NextDuke]_vars

\* the buttons and the left stick of a report at rest but for A at full scale
OnlyADown(r) ==
    /\ r.A = 255 /\ r.wButtons = 0
    /\ r.B = 0 /\ r.X = 0 /\ r.Y = 0 /\ r.BLACK = 0 /\ r.WHITE = 0 /\ r.L = 0 /\ r.R = 0
    /\ r.leftStickX = 0 /\ r.leftStickY = 0

\* C15: mapping a pad state in which only A is set yields a report with A = 0xFF and
\* every other field at rest (wButtons = 0, the other buttons and triggers 0, all four
\* stick axes 0), in every reachable mapping context.
C15_OnlyAMapsToAAlone ==
    (last.op = "handle_duke" /\ last.pad = [ZeroPad EXCEPT !.wButtons = XINPUT_GAMEPAD_A]) =>
        /\ OnlyADown(usbd_c[0].duke.in)
        /\ usbd_c[0].duke.in.rightStickX = 0 /\ usbd_c[0].duke.in.rightStickY = 0

\* C15 as the code has it: A = 0xFF, the other buttons, the triggers and the left
\* stick at rest, and each right-stick axis 0 while its invert modifier is clear and
\* -1 while it is set.
C15_OnlyAAmended ==
    (last.op = "handle_duke" /\ last.pad = [ZeroPad EXCEPT !.wButtons = XINPUT_GAMEPAD_A]) =>
        /\ OnlyADown(usbd_c[0].duke.in)
        /\ usbd_c[0].duke.in.rightStickX =
              (IF BitAnd(last.modifiers, XINPUT_MOD_RSX_INVERT) # 0 THEN -1 ELSE 0)
        /\ usbd_c[0].duke.in.rightStickY =
              (IF BitAnd(last.modifiers, XINPUT_MOD_RSY_INVERT) # 0 THEN -1 ELSE 0)

\* A alone mapped after other buttons and deflected sticks, both modifiers clear
C15_Witness ==
    /\ last.op = "handle_duke" /\ last.pad = [ZeroPad EXCEPT !.wButtons = XINPUT_GAMEPAD_A]
    /\ last.modifiers = 0
    /\ usbd_c[0].duke.in.A = 255 /\ usbd_c[0].duke.in.rightStickY = 0
    /\ xinput_devices[0].lValue_requested # 0

\* A alone mapped while the Y invert modifier is set
C15_WitnessInverted ==
    /\ last.op = "handle_duke" /\ last.pad = [ZeroPad EXCEPT !.wButtons = XINPUT_GAMEPAD_A]
    /\ BitAnd(last.modifiers, XINPUT_MOD_RSY_INVERT) # 0
    /\ usbd_c[0].duke.in.rightStickY = -1

----------------------------------------------------------------------------
(* SpecPreset: handle_sbattalion on slot 0 in cockpit mode, the number keys worked while
   orange is held *)

\* the number keys 1..9 of the chatpad
NumberKeys ==
    <<XINPUT_CHATPAD_1, XINPUT_CHATPAD_2, XINPUT_CHATPAD_3, XINPUT_CHATPAD_4,
      XINPUT_CHATPAD_5, XINPUT_CHATPAD_6, XINPUT_CHATPAD_7, XINPUT_CHATPAD_8,
      XINPUT_CHATPAD_9>>

\* chatpad states the decoder delivers: [modifiers, key]: nothing, orange alone, orange
\* with one number key, a number key without orange
PresetChats ==
    {[mods |-> 0, key |-> 0], [mods |-> XINPUT_CHATPAD_ORANGE, key |-> 0],
     [mods |-> 0, key |-> XINPUT_CHATPAD_1]} \cup
    {[mods |-> XINPUT_CHATPAD_ORANGE, key |-> NumberKeys[k]] : k \in 1..Len(NumberKeys)}

InitPreset ==
    InitMapFrom(CockpitReady(EepromBlank), <<SBC_AIMING_MID, SBC_AIMING_MID>>)

\* what one call of handle_sbattalion for slot 0 leaves; chat is the chatpad state it
\* found, held the chatpad state the call before found
PresetTickEffect(r, chat, held) ==
    /\ xinput_devices' = [xinput_devices EXCEPT ![0] = r.x]
    /\ usbd_c' = [usbd_c EXCEPT ![0].sb.in = r.sb_in]
    /\ user_data' = [user_data EXCEPT ![0] = r.ud]
    /\ sb_sensitivity' = r.sens
    /\ eeprom' = r.ee
    /\ last' = [op |-> "handle_sbattalion", ticks |-> 0, at |-> now, thumb_since |-> -1,
                mods |-> chat.mods, key |-> chat.key, held |-> held[1],
                held_mods |-> held[0], from |-> sb_sensitivity, ee_pre |-> eeprom]

\* one call of handle_sbattalion for slot 0, the decoder having delivered chat
PresetTick ==
    /\ \E chat \in PresetChats :
         PresetTickEffect(
             handle_sbattalion(
                 [xinput_devices[0] EXCEPT
                     !.chatpad_state = (0 :> chat.mods) @@ (1 :> chat.key) @@ (2 :> 0)],
                 usbd_c[0].sb, user_data[0], sb_sensitivity, eeprom, now),
             chat, xinput_devices[0].chatpad_state)
    /\ UNCHANGED <<xin, xdata, xid, detach, now, poll_timer, pc, peer_c, edge>>

NextPreset == PresetTick

SpecPreset == InitPreset /\ [][NextPreset]_vars

\* C16: in cockpit mode with orange held, the rising edge of the number key k (1..9)
\* sets the sensitivity to the k-th preset of {1200, 1000, 800, 650, 400, 350, 300,
\* 250, 200}.
C16_NumberKeySelectsPreset ==
    (/\ last.op = "handle_sbattalion" /\ "key" \in DOMAIN last
     /\ last.mods = XINPUT_CHATPAD_ORANGE /\ last.key # 0 /\ last.held # last.key) =>
        \A k \in 1..Len(NumberKeys) :
            last.key = NumberKeys[k] => sb_sensitivity = sensitivities[k]

\* the rising edge of key 1 with orange held, from another preset
C16_WitnessKey1 ==
    /\ last.op = "handle_sbattalion" /\ "key" \in DOMAIN last
    /\ last.mods = XINPUT_CHATPAD_ORANGE /\ last.key = XINPUT_CHATPAD_1
    /\ last.held = 0 /\ last.from # sensitivities[1]
    /\ sb_sensitivity = sensitivities[1]

\* C24: after a cockpit mapping tick every nonzero entry of chatpad_state_old is a code
\* that was down during this tick or the one before it (a key byte, or a modifier bit
\* for the codes below 17): the entry of a released key, a sensitivity-preset key after
\* orange is released included, is gone no later than the next tick.
C24_HistoryFresh ==
    (last.op = "handle_sbattalion" /\ "held_mods" \in DOMAIN last) =>
        \A k \in 0..2 :
            LET code == xinput_devices[0].chatpad_state_old[k] IN
            code # 0 =>
                \/ code \in {last.key, last.held}
                \/ code < 17 /\ BitAnd(BitOr(last.mods, last.held_mods), code) # 0

----------------------------------------------------------------------------
(* SpecPool: the record pool xinput_devices[4] under alloc_xinput_device and
   free_xinput_device, as the four XINPUT instances of master.cpp call them *)

\* the calls of alloc_xinput_device: the receiver (bus address 1) for a pad linked on
\* one of its four in endpoints, and a wired pad behind the hub (bus address 2)
PoolRequests ==
    {[bAddress |-> 1, type |-> XBOX360_WIRELESS, in |-> e] : e \in {1, 3, 5, 7}} \cup
    {[bAddress |-> 2, type |-> XBOX360_WIRED, in |-> 1]}

InitPool ==
    /\ Boot(EepromBlank)
    /\ last = [op |-> "XINPUT()"]
    /\ edge = EdgeInit

\* what a call of alloc_xinput_device leaves, r being what it returns
PoolAllocEffect(r, rq) ==
    /\ xinput_devices' = r.h.devs
    /\ xdata' = r.h.xdata
    /\ last' = [op |-> "alloc", rq |-> rq, idx |-> r.idx, pre |-> xinput_devices]

\* Init allocates for a device that has just enumerated, ParseInputData for a link
\* report on an endpoint that no live record owns
PoolAlloc ==
    /\ \E rq \in PoolRequests :
         /\ \A i \in 0..(XINPUT_MAXGAMEPADS - 1) :
               ~(/\ xinput_devices[i].bAddress = rq.bAddress
                 /\ xinput_devices[i].usbh_inPipe = rq.in)
         /\ PoolAllocEffect(
              alloc_xinput_device([devs |-> xinput_devices, xdata |-> xdata], rq.bAddress,
                                  0, rq.in, rq.in + 1, rq.type, now), rq)
    /\ UNCHANGED <<xin, usbd_c, user_data, sb_sensitivity, eeprom, xid, detach, now,
                   poll_timer, pc, peer_c, edge>>

PoolFree ==
    /\ \E i \in 0..(XINPUT_MAXGAMEPADS - 1) :
         /\ xinput_devices[i].bAddress # 0
         /\ xinput_devices' = free_xinput_device([devs |-> xinput_devices,
                                                  xdata |-> xdata], i).devs
         /\ last' = [op |-> "free", idx |-> i]
    /\ UNCHANGED <<xin, xdata, usbd_c, user_data, sb_sensitivity, eeprom, xid, detach, now,
                   poll_timer, pc, peer_c, edge>>

NextPool ==
    \/ PoolAlloc
    \/ PoolFree

SpecPool == InitPool /\ [][NextPool]_vars

\* C17: alloc_xinput_device claims the lowest-index record whose bus address is 0; when
\* all four records are live it returns null and modifies no existing record.
C17_AllocLowestOrNull ==
    last.op = "alloc" =>
        IF \E i \in 0..(XINPUT_MAXGAMEPADS - 1) : last.pre[i].bAddress = 0
        THEN /\ last.idx \in 0..(XINPUT_MAXGAMEPADS - 1)
             /\ last.pre[last.idx].bAddress = 0
             /\ \A j \in 0..(last.idx - 1) : last.pre[j].bAddress # 0
             /\ xinput_devices[last.idx].bAddress = last.rq.bAddress
             /\ xinput_devices[last.idx].type = last.rq.type
             /\ \A j \in 0..(XINPUT_MAXGAMEPADS - 1) :
                   j # last.idx => xinput_devices[j] = last.pre[j]
        ELSE /\ last.idx = NoDevice
             /\ xinput_devices = last.pre

\* a call that finds all four records live
C17_Witness ==
    /\ last.op = "alloc" /\ last.idx = NoDevice
    /\ \A i \in 0..(XINPUT_MAXGAMEPADS - 1) : xinput_devices[i].bAddress # 0

\* a call that finds record 1 free between live records
C17_WitnessHole ==
    /\ last.op = "alloc" /\ last.idx = 1
    /\ last.pre[0].bAddress # 0 /\ last.pre[2].bAddress # 0 /\ last.pre[3].bAddress = 0

----------------------------------------------------------------------------
(* SpecDecode: one pad of each family on the port, its reports carrying every single
   button and, for the original-Xbox family, magnitudes at and above the cut *)

\* the button words of the reports: none, all, and each single source bit
DecodeWords == {0, 65535} \cup {2 ^ k : k \in 0..15}

\* the magnitude bytes of the analog-encoded buttons: at the cut, one above, full
DecodeMagnitudes == {32, 33, 255}

\* minimum-length reports of each family with the buttons word w
DecodeWired(w) == Pkt(14, (1 :> 20) @@ (2 :> Lo(w)) @@ (3 :> Hi(w)))
DecodeWireless(w) == Pkt(18, (1 :> 1) @@ (5 :> 19) @@ (6 :> Lo(w)) @@ (7 :> Hi(w)))
DecodeXboxOne(w) == Pkt(18, (0 :> 32) @@ (4 :> Lo(w)) @@ (5 :> Hi(w)))
DecodeXboxOG(w, off, v) == Pkt(20, (1 :> 20) @@ (2 :> Lo(w)) @@ (3 :> Hi(w)) @@ (off :> v))

\* the reports a device of the family delivers on in endpoint 1
DecodePackets(type) ==
    CASE type = XBOX360_WIRED -> {DecodeWired(w) : w \in DecodeWords}
      [] type = XBOX360_WIRELESS -> {DecodeWireless(w) : w \in DecodeWords} \cup {PktConnect}
      [] type = XBOXONE -> {DecodeXboxOne(w) : w \in DecodeWords}
      [] type = XBOXOG -> {DecodeXboxOG(w, 4, 0) : w \in DecodeWords} \cup
                          {DecodeXboxOG(0, off, v) : off \in 4..9, v \in DecodeMagnitudes}
      [] OTHER -> {}

\* the canonical mask of the record of in endpoint 1, 0 while there is none
MaskOfEndpoint(devs) ==
    IF DeviceOfEndpoint(devs, 1) = NoDevice THEN 0
    ELSE devs[DeviceOfEndpoint(devs, 1)].pad_state.wButtons

\* the family the reports of in endpoint 1 are decoded as: wireless for the receiver,
\* the type of the endpoint's record otherwise
DecodeFamily ==
    IF xin.dev_type = XBOX360_WIRELESS THEN XBOX360_WIRELESS
    ELSE IF DeviceOfEndpoint(xinput_devices, 1) # NoDevice
    THEN xinput_devices[DeviceOfEndpoint(xinput_devices, 1)].type
    ELSE XINPUT_UNKNOWN

\* what UsbHost.Task() leaves after Poll, r being what it returns
DecodePollEffect(r, pkt) ==
    /\ xin' = r.cls
    /\ xinput_devices' = r.h.devs
    /\ xdata' = r.h.xdata
    /\ last' = [op |-> "Poll", pkt |-> pkt, type |-> DecodeFamily,
                linked |-> DeviceOfEndpoint(xinput_devices, 1) # NoDevice,
                pre |-> MaskOfEndpoint(xinput_devices),
                post |-> MaskOfEndpoint(r.h.devs)]

\* UsbHost.Task() calls Poll; the in endpoint 1 delivers a report of the device's family
DecodePoll ==
    /\ xin.bIsReady
    /\ \E pkt \in DecodePackets(DecodeFamily) :
         DecodePollEffect(UsbHostTask([devs |-> xinput_devices, xdata |-> xdata], xin,
                                      EvPacket(1, pkt), now), pkt)
    /\ UNCHANGED <<peer_c, usbd_c, user_data, sb_sensitivity, eeprom, xid, detach, now,
                   poll_timer, pc, edge>>

NextDecode ==
    \/ HostInit
    \/ HostRelease
    \/ DecodePoll

SpecDecode == InitHost /\ [][NextDecode]_vars

\* the buttons word of a report, at the family's offset
SourceWord(type, pkt) ==
    CASE type = XBOX360_WIRED -> pkt[3] + 256 * pkt[4]
      [] type = XBOX360_WIRELESS -> pkt[7] + 256 * pkt[8]
      [] type = XBOXONE -> pkt[5] + 256 * pkt[6]
      [] type = XBOXOG -> pkt[3] + 256 * pkt[4]
      [] OTHER -> 0

\* the family's table of source bits
SourceBits(type) ==
    CASE type = XBOX360_WIRED -> WiredBits
      [] type = XBOX360_WIRELESS -> WirelessBits
      [] type = XBOXONE -> XboxOneBits
      [] type = XBOXOG -> XboxOGBits
      [] OTHER -> << >>

\* the report says the button with canonical mask b is down
SourceDown(type, pkt, b) ==
    \/ \E k \in 1..Len(SourceBits(type)) :
          /\ SourceBits(type)[k][2] = b
          /\ (SourceWord(type, pkt) \div (2 ^ SourceBits(type)[k][1])) % 2 = 1
    \/ /\ type = XBOXOG
       /\ \E k \in 1..Len(XboxOGAnalog) :
             /\ XboxOGAnalog[k][2] = b
             /\ pkt[XboxOGAnalog[k][1] + 1] > 32

\* C19: for every family and every well-formed report of a linked pad, the canonical
\* mask has a button set if and only if the report's source bit for that button is set
\* (for the original-Xbox family's six analog-encoded buttons: if and only if the
\* magnitude byte is greater than 0x20); no bit of the previous mask persists.
C19_DecoderBitTable ==
    (last.op = "Poll" /\ last.linked /\ EncodesPadReport(last.type, last.pkt)) =>
        \A k \in 0..15 :
            ((last.post \div (2 ^ k)) % 2 = 1) <=> SourceDown(last.type, last.pkt, 2 ^ k)

\* an original-Xbox report with the A magnitude at 0x20 arrives while A is set in the
\* mask: A is cleared
C19_Witness ==
    /\ last.op = "Poll" /\ last.type = XBOXOG /\ last.linked
    /\ last.pkt[5] = 32
    /\ BitAnd(last.pre, XINPUT_GAMEPAD_A) # 0
    /\ BitAnd(last.post, XINPUT_GAMEPAD_A) = 0

\* an original-Xbox report with the WHITE magnitude at 0x21 sets the left shoulder alone
C19_WitnessAbove ==
    /\ last.op = "Poll" /\ last.type = XBOXOG /\ last.linked
    /\ last.pkt[10] = 33
    /\ last.post = XINPUT_GAMEPAD_LEFT_SHOULDER

\* a next-generation report with source bit 8 alone replaces a full mask by D-pad up
C19_WitnessXboxOne ==
    /\ last.op = "Poll" /\ last.type = XBOXONE /\ last.linked
    /\ SourceWord(XBOXONE, last.pkt) = 256
    /\ last.pre # 0 /\ last.pre # XINPUT_GAMEPAD_DPAD_UP
    /\ last.post = XINPUT_GAMEPAD_DPAD_UP

\* a wireless report with the guide bit alone
C19_WitnessWireless ==
    /\ last.op = "Poll" /\ last.type = XBOX360_WIRELESS /\ last.linked
    /\ SourceWord(XBOX360_WIRELESS, last.pkt) = 1024
    /\ last.post = XINPUT_GAMEPAD_XBOX_BUTTON

\* a wired report with source bit 12 alone
C19_WitnessWired ==
    /\ last.op = "Poll" /\ last.type = XBOX360_WIRED /\ last.linked
    /\ SourceWord(XBOX360_WIRED, last.pkt) = 4096
    /\ last.post = XINPUT_GAMEPAD_A

----------------------------------------------------------------------------
(* SpecControl: the console's control requests against the XID_ object in each type *)

\* millis() is not advanced beyond this value in the control specification
MaxNowControl == 1

\* the setup packets of the console: vendor, class and standard request types, to and
\* from the device, with the request and value bytes setup() looks at and others
ControlPackets ==
    [bmRequestType : {193, 161, 33, 129}, bRequest : {1, 6, 9},
     wValueH : {1, 2, 66}, wValueL : {0, 1}]

\* what XID_::setup() leaves, r being what it returns
ControlSetupEffect(r, rq, req) ==
    /\ xid' = r.x
    /\ last' = [op |-> "setup", rq |-> rq, wIndexMatches |-> req.wIndexMatches,
                type |-> xid.xid_type, ret |-> r.ret, sent |-> SetupSends(xid, req)]

\* a control request of the console reaches XID_::setup()
ControlSetup ==
    /\ \E rq \in ControlPackets, m \in BOOLEAN :
         ControlSetupEffect(
             setup(xid, [wIndexMatches |-> m, kind |-> RequestKind(rq),
                         wLength |-> SIZEOF_DUKE_OUT,
                         payload |-> RecvReport(SIZEOF_DUKE_OUT, 3 :> 128).r], now),
             rq,
             [wIndexMatches |-> m, kind |-> RequestKind(rq)])
    /\ UNCHANGED <<peer_c, xin, xinput_devices, xdata, usbd_c, user_data, sb_sensitivity,
                   eeprom, detach, now, poll_timer, pc, edge>>

\* loop() switches the emulated type
ControlSetType ==
    /\ \E type \in XidTypes :
         /\ xid' = setType(xid, detach, type).x
         /\ detach' = setType(xid, detach, type).detach
         /\ last' = [op |-> "setType", type |-> type]
    /\ UNCHANGED <<peer_c, xin, xinput_devices, xdata, usbd_c, user_data, sb_sensitivity,
                   eeprom, now, poll_timer, pc, edge>>

InitControl ==
    /\ Boot(EepromBlank)
    /\ last = [op |-> "XID_()"]
    /\ edge = EdgeInit

NextControl ==
    \/ AdvanceTime({1}, MaxNowControl)
    \/ ControlSetType
    \/ ControlSetup

SpecControl == InitControl /\ [][NextControl]_vars

\* the setup packet is the descriptor query: vendor request 6 from the interface with
\* wValue 0x4200
IsDescriptorQuery(rq) ==
    rq.bmRequestType = 193 /\ rq.bRequest = 6 /\ rq.wValueH = 66 /\ rq.wValueL = 0

\* the setup packet is one of the other requests the emulation serves: capabilities
\* in/out (vendor request 1, wValue 0x0100/0x0200), GET_REPORT(input), SET_REPORT(output)
IsServedRequest(rq) ==
    \/ rq.bmRequestType = 193 /\ rq.bRequest = 1 /\ rq.wValueH \in {1, 2} /\ rq.wValueL = 0
    \/ rq.bmRequestType = 161 /\ rq.bRequest = 1 /\ rq.wValueH = 1
    \/ rq.bmRequestType = 33 /\ rq.bRequest = 9 /\ rq.wValueH = 2

\* C22: a descriptor query to the XID interface is answered with the standard blob when
\* the type is DUKE and the cockpit blob when it is STEELBATTALION; every request that
\* is neither a descriptor query for a connected type nor a capabilities, GET_REPORT
\* (input) or SET_REPORT(output) request is rejected, the descriptor query while
\* DISCONNECTED included.
C22_ControlRequests ==
    last.op = "setup" =>
        /\ (IsDescriptorQuery(last.rq) /\ last.wIndexMatches /\ last.type = DUKE)
              => (last.ret /\ last.sent = "DUKE_DESC_XID")
        /\ (IsDescriptorQuery(last.rq) /\ last.wIndexMatches /\ last.type = STEELBATTALION)
              => (last.ret /\ last.sent = "BATTALION_DESC_XID")
        /\ ~(\/ IsDescriptorQuery(last.rq) /\ last.type \in {DUKE, STEELBATTALION}
             \/ IsServedRequest(last.rq))
              => (~last.ret /\ last.sent = "nothing")

\* the descriptor query arrives while the type is DISCONNECTED and is rejected
C22_Witness ==
    /\ last.op = "setup" /\ IsDescriptorQuery(last.rq) /\ last.wIndexMatches
    /\ last.type = DISCONNECTED /\ ~last.ret

\* the descriptor query is answered with the cockpit blob
C22_WitnessCockpit ==
    /\ last.op = "setup" /\ IsDescriptorQuery(last.rq)
    /\ last.sent = "BATTALION_DESC_XID"

----------------------------------------------------------------------------
(* SpecKeepalive: a linked wireless pad that is polled forever while the application
   requests nothing new *)

\* millis() is not advanced beyond this value in the keepalive specification
MaxNowKeepalive == 2002

\* what in endpoint 1 delivers during a Poll of the idle pad: nothing, or a pad event
\* with the A button (the Xbox button is never held)
KeepalivePackets == {NoPacket, PktPad(4096, 0, 0, 0, 0, 0, 0)}

\* UsbHost.Task() calls Poll
KeepalivePoll ==
    /\ xin.bIsReady
    /\ \E pkt \in KeepalivePackets :
         \E r \in {UsbHostTask([devs |-> xinput_devices, xdata |-> xdata], xin,
                                EvPacket(1, pkt), now)} :
           \E mid \in {IF pkt = NoPacket THEN [devs |-> xinput_devices, xdata |-> xdata]
                        ELSE ParseInputData([devs |-> xinput_devices,
                                             xdata |-> CopyToXdata(xdata, pkt)],
                                            DeviceOfEndpoint(xinput_devices, 1), 1, xin,
                                            now).h} :
             FeedbackPollEffect(r, mid)
    /\ UNCHANGED <<usbd_c, user_data, sb_sensitivity, eeprom, xid, detach, now,
                   poll_timer, pc, peer_c, edge>>

\* millis() advances
KeepaliveTime == AdvanceTime({500, 1001}, MaxNowKeepalive)

InitKeepalive == InitFeedbackFrom(FeedbackWireless, BootState(EepromBlank))

NextKeepalive ==
    \/ KeepaliveTime
    \/ KeepalivePoll

\* loop() never stops calling UsbHost.Task(), and millis() never stops
SpecKeepalive ==
    InitKeepalive /\ [][NextKeepalive]_vars /\ WF_vars(KeepalivePoll) /\ WF_vars(KeepaliveTime)

\* the linked wireless pad has nothing pending, its Xbox button is not held, its out
\* endpoint may be written (20 ms since the last write) and more than 1000 ms have
\* passed since the last periodic emission
KeepaliveDue ==
    LET d == xinput_devices[0] IN
    /\ xin.bIsReady /\ d.bAddress # 0 /\ d.type = XBOX360_WIRELESS
    /\ d.lValue_requested = d.lValue_actual /\ d.rValue_requested = d.rValue_actual
    /\ d.led_requested = d.led_actual
    /\ d.chatpad_initialised # 0
    /\ d.chatpad_led_requested = d.chatpad_led_actual
    /\ BitAnd(d.pad_state.wButtons, XINPUT_GAMEPAD_XBOX_BUTTON) = 0
    /\ Elapsed(now, d.timer_out) >= 20
    /\ Elapsed(now, d.timer_periodic) > 1000

\* the last Poll made the periodic emission: the chatpad keepalive toggle has flipped
\* and timer_periodic was restarted
KeepaliveEmitted ==
    /\ last.op = "Poll"
    /\ last.post.chatpad_keepalive_toggle # last.pre.chatpad_keepalive_toggle
    /\ last.post.timer_periodic = last.at

C25_WitnessDue ==
    /\ KeepaliveDue
    /\ last.op = "Poll" /\ last.at = now
    /\ last.post.timer_periodic = last.pre.timer_periodic

----------------------------------------------------------------------------
(* SpecActual: the rumble and LED bookkeeping of a wired and of an original-Xbox pad,
   with out transfers that succeed or fail *)

\* millis() is not advanced beyond this value in the bookkeeping specification
MaxNowActual == 60

\* the host driver after Init of an original-Xbox pad
ActualXboxOG == UsbHostTask(BootState(EepromBlank).h, XinputConstructed,
                            EvAttach(XBOXOG), 0)

\* what in endpoint 1 delivers during a Poll: nothing, or (wired) the pad's LED
\* feedback report for quadrant 2 and its rumble feedback report
ActualPackets(type) ==
    IF type = XBOX360_WIRED
    THEN {NoPacket, Pkt(3, (0 :> 1) @@ (1 :> 3) @@ (2 :> 7)),
          Pkt(8, (0 :> 3) @@ (1 :> 8) @@ (3 :> 1) @@ (4 :> 1))}
    ELSE {NoPacket}

InitActual ==
    \/ InitFeedbackFrom(FeedbackWired, BootState(EepromBlank))
    \/ InitFeedbackFrom(ActualXboxOG, BootState(EepromBlank))

\* what a Poll leaves: r is what UsbHost.Task() returns, mid the driver state when the
\* loop of Poll reaches out endpoint 2, out_ok whether outTransfer returns hrSUCCESS
\* (Poll discards what SetRumble and SetLed return)
ActualPollEffect(r, mid, out_ok) ==
    /\ xin' = r.cls
    /\ xinput_devices' = r.h.devs
    /\ xdata' = r.h.xdata
    /\ last' = [op |-> "Poll", at |-> now, pre |-> xinput_devices[0], mid |-> mid.devs[0],
                post |-> r.h.devs[0], out_ok |-> out_ok]

\* UsbHost.Task() calls Poll
ActualPoll ==
    /\ xin.bIsReady
    /\ \E pkt \in ActualPackets(xinput_devices[0].type), out_ok \in BOOLEAN :
         ActualPollEffect(
             UsbHostTask([devs |-> xinput_devices, xdata |-> xdata], xin,
                         EvPacket(1, pkt), now),
             IF pkt = NoPacket THEN [devs |-> xinput_devices, xdata |-> xdata]
             ELSE ParseInputData([devs |-> xinput_devices, xdata |-> CopyToXdata(xdata, pkt)],
                                 DeviceOfEndpoint(xinput_devices, 1), 1, xin, now).h,
             out_ok)
    /\ UNCHANGED <<usbd_c, user_data, sb_sensitivity, eeprom, xid, detach, now,
                   poll_timer, pc, peer_c, edge>>

NextActual ==
    \/ AdvanceTime({20}, MaxNowActual)
    \/ FeedbackRequest
    \/ ActualPoll

SpecActual == InitActual /\ [][NextActual]_vars

\* the out pass of the last Poll ran for the record (20 ms since its last write)
OutPassRan == last.mid.bAddress # 0 /\ Elapsed(last.at, last.mid.timer_out) >= 20

\* the last Poll handed the rumble / the LED command to outTransfer
RumbleWritten ==
    OutPassRan /\ WantsRumble(last.mid) /\ SetRumbleTransfers(last.mid.type)
LedWritten ==
    /\ OutPassRan /\ ~WantsRumble(last.mid) /\ WantsLed(last.mid)
    /\ SetLedTransfers(last.mid.type)

\* C26: lValue_actual, rValue_actual and led_actual change only in a step in which the
\* out transfer of the corresponding command to the device succeeded; after a failed
\* transfer, or for a family without the command, they are unchanged (requested still
\* differs from actual and the command is retried).
C26_ActualOnlyAfterWrite ==
    last.op = "Poll" =>
        /\ (\/ last.post.lValue_actual # last.pre.lValue_actual
            \/ last.post.rValue_actual # last.pre.rValue_actual)
              => (RumbleWritten /\ last.out_ok)
        /\ last.post.led_actual # last.pre.led_actual => (LedWritten /\ last.out_ok)

\* the rumble command is handed to a failing outTransfer and lValue_actual takes the
\* requested value all the same
C26_WitnessFailedWrite ==
    /\ last.op = "Poll" /\ RumbleWritten /\ ~last.out_ok
    /\ last.post.lValue_actual # last.pre.lValue_actual
    /\ last.post.lValue_actual = last.post.lValue_requested

\* an original-Xbox pad, which has no LED command: led_actual takes the requested value
C26_WitnessNoCommand ==
    /\ last.op = "Poll" /\ last.pre.type = XBOXOG
    /\ last.post.led_actual # last.pre.led_actual

----------------------------------------------------------------------------
(* SpecLink: one class instance whose device is a wired pad or a wireless receiver;
   the receiver's four in endpoints deliver link reports *)

\* the in endpoints of the receiver
LinkEndpoints == {1, 3, 5, 7}

\* what an in endpoint delivers: pad present, pad gone
LinkPackets == {PktConnect, PktDisconnect}

\* what a Poll leaves: the endpoint and the packet it delivered, the record the
\* endpoint belonged to and the pool before the call
LinkPollEffect(r, ep, pkt) ==
    /\ xin' = r.cls
    /\ xinput_devices' = r.h.devs
    /\ xdata' = r.h.xdata
    /\ last' = [op |-> "Poll", ep |-> ep, pkt |-> pkt,
                xp |-> DeviceOfEndpoint(xinput_devices, ep), pre |-> xinput_devices,
                wireless |-> xin.dev_type = XBOX360_WIRELESS]

\* UsbHost.Task() calls Poll; the in endpoint ep delivers pkt
LinkPoll ==
    /\ xin.bIsReady
    /\ \E ep \in LinkEndpoints, pkt \in LinkPackets :
         \E r \in {UsbHostTask([devs |-> xinput_devices, xdata |-> xdata], xin,
                               EvPacket(ep, pkt), now)} :
            LinkPollEffect(r, ep, pkt)
    /\ UNCHANGED <<peer_c, usbd_c, user_data, sb_sensitivity, eeprom, xid, detach, now,
                   poll_timer, pc, edge>>

\* UsbHost.Task() finds the device gone and calls Release
LinkRelease ==
    /\ xin.bAddress # 0
    /\ \E r \in {UsbHostTask([devs |-> xinput_devices, xdata |-> xdata], xin, EvDetach,
                              now)} :
         /\ xin' = r.cls
         /\ xinput_devices' = r.h.devs
         /\ xdata' = r.h.xdata
         /\ last' = [op |-> "Release", bAddress |-> xin.bAddress, pre |-> xinput_devices]
    /\ UNCHANGED <<peer_c, usbd_c, user_data, sb_sensitivity, eeprom, xid, detach, now,
                   poll_timer, pc, edge>>

NextLink ==
    \/ HostInit
    \/ LinkRelease
    \/ LinkPoll

SpecLink == InitHost /\ [][NextLink]_vars

\* the records in use
LiveDevices(devs) == {k \in 0..(XINPUT_MAXGAMEPADS - 1) : devs[k].bAddress # 0}

\* the link reports as ParseInputData tells them apart
IsPresenceAttach(pkt) == BitAnd(pkt[1], 8) # 0 /\ pkt[2] # 0
IsPresenceDetach(pkt) == BitAnd(pkt[1], 8) # 0 /\ pkt[2] = 0

\* C27: no two live records refer to the same in endpoint; a wireless presence-attach
\* report on an endpoint that already has a record allocates nothing, a
\* presence-detach report zeroes exactly that endpoint's record, and after Release no
\* record carries the released bus address.
C27_RecordUniqueness ==
    /\ \A i, j \in LiveDevices(xinput_devices) :
          i # j => xinput_devices[i].usbh_inPipe # xinput_devices[j].usbh_inPipe
    /\ (last.op = "Poll" /\ last.wireless /\ last.xp # NoDevice
          /\ IsPresenceAttach(last.pkt)) =>
          /\ LiveDevices(xinput_devices) = LiveDevices(last.pre)
          /\ \A k \in 0..(XINPUT_MAXGAMEPADS - 1) :
                /\ xinput_devices[k].bAddress = last.pre[k].bAddress
                /\ xinput_devices[k].usbh_inPipe = last.pre[k].usbh_inPipe
                /\ xinput_devices[k].usbh_outPipe = last.pre[k].usbh_outPipe
    /\ (last.op = "Poll" /\ last.wireless /\ last.xp # NoDevice
          /\ IsPresenceDetach(last.pkt)) =>
          /\ xinput_devices[last.xp] = ZeroDevice
          /\ \A k \in 0..(XINPUT_MAXGAMEPADS - 1) :
                k # last.xp => xinput_devices[k] = last.pre[k]
    /\ last.op = "Release" =>
          \A k \in 0..(XINPUT_MAXGAMEPADS - 1) :
             xinput_devices[k].bAddress # last.bAddress

\* a second presence-attach report on the endpoint of a linked pad, two pads linked
C27_Witness ==
    /\ last.op = "Poll" /\ last.wireless /\ last.xp # NoDevice
    /\ IsPresenceAttach(last.pkt)
    /\ Cardinality(LiveDevices(xinput_devices)) >= 2

\* a presence-detach report for one of three linked pads
C27_WitnessDetach ==
    /\ last.op = "Poll" /\ last.wireless /\ last.xp # NoDevice
    /\ IsPresenceDetach(last.pkt)
    /\ Cardinality(LiveDevices(last.pre)) = 3
    /\ Cardinality(LiveDevices(xinput_devices)) = 2

\* the receiver is unplugged with all four pads linked
C27_WitnessRelease ==
    /\ last.op = "Release"
    /\ Cardinality(LiveDevices(last.pre)) = 4
    /\ LiveDevices(xinput_devices) = {}

----------------------------------------------------------------------------
(* SpecCalib: the sensitivity setting from boot on: master_init on a blank store and on
   a store written by an earlier run, then the preset keys worked in cockpit mode *)

\* the store at power-up: never written, or holding a preset an earlier run selected
CalibEeproms == {EepromBlank, EepromHolding(1200), EepromHolding(200)}

InitCalib ==
    \E ee0 \in CalibEeproms :
       InitMapFrom(CockpitReady(ee0), <<SBC_AIMING_MID, SBC_AIMING_MID>>)

NextCalib == PresetTick

SpecCalib == InitCalib /\ [][NextCalib]_vars

\* C28: after master_init the in-memory sensitivity equals the value persisted at
\* address 1 and the magic byte is in place (a first run has written the default); a
\* mapping tick writes the store only when a selected preset differs from the current
\* value, and selecting the already-current preset performs no write.
C28_CalibrationPersisted ==
    /\ eeprom.magic = EEPROM_MAGIC
    /\ sb_sensitivity = eeprom.sensitivity
    /\ (last.op = "handle_sbattalion" /\ "ee_pre" \in DOMAIN last) =>
          /\ eeprom # last.ee_pre =>
                /\ BitAnd(last.mods, XINPUT_CHATPAD_ORANGE) # 0
                /\ \E i \in 1..Len(sensitivities) :
                      /\ last.key = XINPUT_CHATPAD_1 + (i - 1)
                      /\ sb_sensitivity = sensitivities[i]
                /\ sb_sensitivity # last.from
                /\ last.ee_pre.sensitivity = last.from
          /\ (/\ BitAnd(last.mods, XINPUT_CHATPAD_ORANGE) # 0
              /\ \E i \in 1..Len(sensitivities) :
                    /\ last.key = XINPUT_CHATPAD_1 + (i - 1)
                    /\ last.from = sensitivities[i]) =>
                eeprom = last.ee_pre

\* a preset other than the stored one is selected: the store is written
C28_Witness ==
    /\ last.op = "handle_sbattalion" /\ "ee_pre" \in DOMAIN last
    /\ last.ee_pre.sensitivity = 200 /\ last.from = 200
    /\ last.key = XINPUT_CHATPAD_1 /\ last.held = 0
    /\ eeprom.sensitivity = 1200 /\ sb_sensitivity = 1200
    /\ eeprom.writes = 1

\* the already-current preset is selected: no write
C28_WitnessSame ==
    /\ last.op = "handle_sbattalion" /\ "ee_pre" \in DOMAIN last
    /\ last.mods = XINPUT_CHATPAD_ORANGE /\ last.key = XINPUT_CHATPAD_1 /\ last.held = 0
    /\ last.from = 1200 /\ eeprom = last.ee_pre /\ eeprom.writes = 0

\* a first run: the default is in memory and in the store
C28_WitnessFirstRun ==
    /\ last.op = "handle_sbattalion" /\ "ee_pre" \in DOMAIN last
    /\ eeprom = [magic |-> EEPROM_MAGIC, sensitivity |-> SB_DEFAULT_SENSITIVITY,
                 writes |-> 0]
    /\ sb_sensitivity = SB_DEFAULT_SENSITIVITY

----------------------------------------------------------------------------
(* SpecDial and SpecGear: handle_sbattalion on slot 0 in cockpit mode, the D-pad worked
   with and without the mode button and orange *)

\* [wb, mods]: the pad buttons and the chatpad modifiers a call finds
LeverInput(wb, mods) == [wb |-> wb, mods |-> mods]

\* the inputs of the tuner dial: left and right alone, and each D-pad direction with
\* the mode button (pad Back or chatpad messenger)
DialInputs ==
    {LeverInput(wb, 0) :
        wb \in {0, XINPUT_GAMEPAD_DPAD_RIGHT, XINPUT_GAMEPAD_DPAD_LEFT,
                XINPUT_GAMEPAD_BACK + XINPUT_GAMEPAD_DPAD_RIGHT,
                XINPUT_GAMEPAD_BACK + XINPUT_GAMEPAD_DPAD_LEFT,
                XINPUT_GAMEPAD_BACK + XINPUT_GAMEPAD_DPAD_UP,
                XINPUT_GAMEPAD_BACK + XINPUT_GAMEPAD_DPAD_DOWN}} \cup
    {LeverInput(wb, XINPUT_CHATPAD_MESSENGER) :
        wb \in {0, XINPUT_GAMEPAD_DPAD_UP, XINPUT_GAMEPAD_DPAD_DOWN}}

\* the inputs of the gear lever: up and down alone, with left or right, with orange
\* and with the mode button
GearInputs ==
    {LeverInput(wb, 0) :
        wb \in {0, XINPUT_GAMEPAD_DPAD_UP, XINPUT_GAMEPAD_DPAD_DOWN,
                XINPUT_GAMEPAD_DPAD_LEFT,
                XINPUT_GAMEPAD_DPAD_UP + XINPUT_GAMEPAD_DPAD_LEFT,
                XINPUT_GAMEPAD_DPAD_DOWN + XINPUT_GAMEPAD_DPAD_RIGHT,
                XINPUT_GAMEPAD_BACK + XINPUT_GAMEPAD_DPAD_DOWN}} \cup
    {LeverInput(wb, XINPUT_CHATPAD_ORANGE) :
        wb \in {0, XINPUT_GAMEPAD_DPAD_UP, XINPUT_GAMEPAD_DPAD_DOWN}} \cup
    {LeverInput(wb, XINPUT_CHATPAD_MESSENGER) : wb \in {0, XINPUT_GAMEPAD_DPAD_DOWN}}

InitLever ==
    InitMapFrom(CockpitReady(EepromBlank), <<SBC_AIMING_MID, SBC_AIMING_MID>>)

\* the bit of the D-pad direction b if b is down in wb and its press began in a call
\* that found left or right held, else 0
BeganBlocked(wb, b) ==
    IF BitAnd(wb, b) = 0 THEN 0
    ELSE IF BitAnd(xinput_devices[0].pad_state.wButtons, b) = 0
    THEN (IF BitAnd(wb, XINPUT_GAMEPAD_DPAD_LEFT + XINPUT_GAMEPAD_DPAD_RIGHT) # 0
          THEN b ELSE 0)
    ELSE IF "blocked" \in DOMAIN last THEN BitAnd(last.blocked, b) ELSE 0

\* what one call of handle_sbattalion for slot 0 leaves: last holds the buttons and
\* modifiers the call found, those the call before found, and the report before
LeverTickEffect(r, wb, mods) ==
    /\ xinput_devices' = [xinput_devices EXCEPT ![0] = r.x]
    /\ usbd_c' = [usbd_c EXCEPT ![0].sb.in = r.sb_in]
    /\ user_data' = [user_data EXCEPT ![0] = r.ud]
    /\ sb_sensitivity' = r.sens
    /\ eeprom' = r.ee
    /\ last' = [op |-> "handle_sbattalion", ticks |-> 0, at |-> now, thumb_since |-> -1,
                wb |-> wb, mods |-> mods,
                wb_held |-> xinput_devices[0].pad_state.wButtons,
                dial |-> usbd_c[0].sb.in.tunerDial, gear |-> usbd_c[0].sb.in.gearLever,
                blocked |-> BeganBlocked(wb, XINPUT_GAMEPAD_DPAD_UP)
                            + BeganBlocked(wb, XINPUT_GAMEPAD_DPAD_DOWN)]

\* handle_sbattalion for slot 0, the decoder having delivered the buttons and the
\* chatpad modifiers of inp
LeverCall(inp) ==
    handle_sbattalion(
        [xinput_devices[0] EXCEPT
            !.pad_state.wButtons = inp.wb,
            !.chatpad_state = (0 :> inp.mods) @@ (1 :> 0) @@ (2 :> 0)],
        usbd_c[0].sb, user_data[0], sb_sensitivity, eeprom, now)

DialTick ==
    /\ \E inp \in DialInputs :
         \E r \in {LeverCall(inp)} : LeverTickEffect(r, inp.wb, inp.mods)
    /\ UNCHANGED <<xin, xdata, xid, detach, now, poll_timer, pc, peer_c, edge>>

GearTick ==
    /\ \E inp \in GearInputs :
         \E r \in {LeverCall(inp)} : LeverTickEffect(r, inp.wb, inp.mods)
    /\ UNCHANGED <<xin, xdata, xid, detach, now, poll_timer, pc, peer_c, edge>>

NextDial == DialTick
NextGear == GearTick

SpecDial == InitLever /\ [][NextDial]_vars
SpecGear == InitLever /\ [][NextGear]_vars

\* the mode button as the call found it: chatpad messenger or pad Back
ModeHeld == last.op = "handle_sbattalion" /\ "wb" \in DOMAIN last
            /\ (BitAnd(last.mods, XINPUT_CHATPAD_MESSENGER) # 0
                \/ BitAnd(last.wb, XINPUT_GAMEPAD_BACK) # 0)

\* C29: tunerDial is within 0..15 after every cockpit mapping tick and saturates at both
\* ends: an increment edge at 15 leaves it at 15, a decrement edge at 0 leaves it at 0;
\* it changes only in ticks where the mode button (chatpad messenger or pad Back) is
\* held.
C29_TunerDialSaturates ==
    /\ usbd_c[0].sb.in.tunerDial \in 0..15
    /\ (last.op = "handle_sbattalion" /\ "wb" \in DOMAIN last) =>
          /\ usbd_c[0].sb.in.tunerDial # last.dial => ModeHeld
          /\ last.dial = 15 => usbd_c[0].sb.in.tunerDial # 0
          /\ last.dial = 0 => usbd_c[0].sb.in.tunerDial # 15
          /\ usbd_c[0].sb.in.tunerDial - last.dial \in {-1, 0, 1}

\* a decrement edge (D-pad down newly pressed, mode held) with the dial at 0
C29_Witness ==
    /\ ModeHeld
    /\ last.dial = 0 /\ usbd_c[0].sb.in.tunerDial = 0
    /\ BitAnd(last.wb, XINPUT_GAMEPAD_DPAD_DOWN) # 0
    /\ BitAnd(last.wb_held, XINPUT_GAMEPAD_DPAD_DOWN) = 0
    /\ BitAnd(last.wb, XINPUT_GAMEPAD_DPAD_UP) = 0

\* an increment edge with the dial at 15
C29_WitnessTop ==
    /\ ModeHeld
    /\ last.dial = 15 /\ usbd_c[0].sb.in.tunerDial = 15
    /\ BitAnd(last.wb, XINPUT_GAMEPAD_DPAD_UP) # 0
    /\ BitAnd(last.wb_held, XINPUT_GAMEPAD_DPAD_UP) = 0
    /\ BitAnd(last.wb, XINPUT_GAMEPAD_DPAD_DOWN) = 0

\* the D-pad direction b goes from released to pressed in the call last describes
NewlyPressed(b) == BitAnd(last.wb, b) # 0 /\ BitAnd(last.wb_held, b) = 0

\* C30: gearLever stays within [SBC_GEAR_R, SBC_GEAR_5] and moves, by one step, only in
\* a tick where D-pad up or down goes from released to pressed while the mode button is
\* released, orange is not held and neither D-pad left nor right is held; a press of up
\* or down that began while left or right was held never changes the gear, even after
\* left/right is released.
C30_GearLeverEdges ==
    /\ usbd_c[0].sb.in.gearLever \in SBC_GEAR_R..SBC_GEAR_5
    /\ (last.op = "handle_sbattalion" /\ "wb" \in DOMAIN last) =>
          /\ usbd_c[0].sb.in.gearLever # last.gear =>
                /\ usbd_c[0].sb.in.gearLever - last.gear \in {-1, 1}
                /\ ~ModeHeld
                /\ BitAnd(last.mods, XINPUT_CHATPAD_ORANGE) = 0
                /\ BitAnd(last.wb, XINPUT_GAMEPAD_DPAD_LEFT + XINPUT_GAMEPAD_DPAD_RIGHT) = 0
                /\ (NewlyPressed(XINPUT_GAMEPAD_DPAD_UP)
                       \/ NewlyPressed(XINPUT_GAMEPAD_DPAD_DOWN))
          /\ usbd_c[0].sb.in.gearLever > last.gear =>
                BitAnd(last.blocked, XINPUT_GAMEPAD_DPAD_UP) = 0
          /\ usbd_c[0].sb.in.gearLever < last.gear =>
                BitAnd(last.blocked, XINPUT_GAMEPAD_DPAD_DOWN) = 0

\* the part of C30 the code keeps: the range, the single step, and no change in a call
\* that finds the mode button, orange, left or right held
C30_GearLeverGuards ==
    /\ usbd_c[0].sb.in.gearLever \in SBC_GEAR_R..SBC_GEAR_5
    /\ (last.op = "handle_sbattalion" /\ "wb" \in DOMAIN last) =>
          (usbd_c[0].sb.in.gearLever # last.gear =>
             /\ usbd_c[0].sb.in.gearLever - last.gear \in {-1, 1}
             /\ ~ModeHeld
             /\ BitAnd(last.mods, XINPUT_CHATPAD_ORANGE) = 0
             /\ BitAnd(last.wb, XINPUT_GAMEPAD_DPAD_LEFT + XINPUT_GAMEPAD_DPAD_RIGHT) = 0)

\* up was pressed while left was held; left is released with up still down: the gear
\* moves one step up
C30_WitnessAfterRelease ==
    /\ last.op = "handle_sbattalion" /\ "wb" \in DOMAIN last
    /\ last.wb = XINPUT_GAMEPAD_DPAD_UP
    /\ last.wb_held = XINPUT_GAMEPAD_DPAD_UP + XINPUT_GAMEPAD_DPAD_LEFT
    /\ BitAnd(last.blocked, XINPUT_GAMEPAD_DPAD_UP) # 0
    /\ usbd_c[0].sb.in.gearLever = last.gear + 1

\* up is held since a call that found orange held; orange is released: the gear moves
\* in a call in which up does not go from released to pressed
C30_WitnessAfterOrange ==
    /\ last.op = "handle_sbattalion" /\ "wb" \in DOMAIN last
    /\ last.wb = XINPUT_GAMEPAD_DPAD_UP /\ last.wb_held = XINPUT_GAMEPAD_DPAD_UP
    /\ last.mods = 0 /\ last.blocked = 0
    /\ usbd_c[0].sb.in.gearLever = last.gear + 1

\* an ordinary shift: up newly pressed with nothing else held, from neutral
C30_WitnessShift ==
    /\ last.op = "handle_sbattalion" /\ "wb" \in DOMAIN last
    /\ last.wb = XINPUT_GAMEPAD_DPAD_UP /\ last.wb_held = 0 /\ last.mods = 0
    /\ last.gear = SBC_GEAR_N /\ usbd_c[0].sb.in.gearLever = SBC_GEAR_N + 1

----------------------------------------------------------------------------
(* SpecInvert: handle_duke on slot 0 in standard mode, the D-pad worked with and
   without the right-stick click *)

\* the pad buttons the invert modifiers read
InvertButtons ==
    {0, XINPUT_GAMEPAD_RIGHT_THUMB, XINPUT_GAMEPAD_DPAD_UP, XINPUT_GAMEPAD_DPAD_LEFT,
     XINPUT_GAMEPAD_RIGHT_THUMB + XINPUT_GAMEPAD_DPAD_UP,
     XINPUT_GAMEPAD_RIGHT_THUMB + XINPUT_GAMEPAD_DPAD_DOWN,
     XINPUT_GAMEPAD_RIGHT_THUMB + XINPUT_GAMEPAD_DPAD_UP + XINPUT_GAMEPAD_DPAD_DOWN,
     XINPUT_GAMEPAD_RIGHT_THUMB + XINPUT_GAMEPAD_DPAD_LEFT,
     XINPUT_GAMEPAD_RIGHT_THUMB + XINPUT_GAMEPAD_DPAD_LEFT + XINPUT_GAMEPAD_DPAD_RIGHT}

\* what one call of handle_duke for slot 0 leaves: last holds the buttons the call
\* found, those the call before found and the modifiers before the call
InvertTickEffect(r, wb) ==
    /\ xinput_devices' = [xinput_devices EXCEPT ![0] = r.x]
    /\ usbd_c' = [usbd_c EXCEPT ![0].duke.in = r.duke_in]
    /\ user_data' = [user_data EXCEPT ![0] = r.ud]
    /\ last' = [op |-> "handle_duke", wb |-> wb,
                wb_held |-> xinput_devices[0].pad_state.wButtons,
                modifiers |-> user_data[0].modifiers]

\* one call of handle_duke for slot 0, the decoder having delivered the buttons wb
InvertTick ==
    /\ \E wb \in InvertButtons :
         \E r \in {handle_duke([xinput_devices[0] EXCEPT !.pad_state.wButtons = wb],
                               usbd_c[0].duke, user_data[0])} :
            InvertTickEffect(r, wb)
    /\ UNCHANGED <<xin, xdata, sb_sensitivity, eeprom, xid, detach, now, poll_timer, pc,
                   peer_c, edge>>

NextInvert == InvertTick

SpecInvert == InitDuke /\ [][NextInvert]_vars

\* the call last describes found the right-stick click held
ClickHeld == last.op = "handle_duke" /\ "wb" \in DOMAIN last
             /\ BitAnd(last.wb, XINPUT_GAMEPAD_RIGHT_THUMB) # 0

\* the D-pad direction b goes from released to pressed in the call last describes
PressBegins(b) == BitAnd(last.wb, b) # 0 /\ BitAnd(last.wb_held, b) = 0

\* the modifier bit m differs from what it was before the call
Flipped(m) == BitAnd(user_data[0].modifiers, m) # BitAnd(last.modifiers, m)

\* C31: in standard mode the Y-invert (X-invert) modifier flips in a call exactly when
\* a press of D-pad up or down (left or right) begins in it with the right-stick click
\* held: one flip for a simultaneous press of two opposite directions, none for a
\* direction already held before the click.
C31_InvertFlipsOnPress ==
    (last.op = "handle_duke" /\ "wb" \in DOMAIN last) =>
        /\ Flipped(XINPUT_MOD_RSY_INVERT) <=>
              (ClickHeld /\ (PressBegins(XINPUT_GAMEPAD_DPAD_UP)
                               \/ PressBegins(XINPUT_GAMEPAD_DPAD_DOWN)))
        /\ Flipped(XINPUT_MOD_RSX_INVERT) <=>
              (ClickHeld /\ (PressBegins(XINPUT_GAMEPAD_DPAD_LEFT)
                               \/ PressBegins(XINPUT_GAMEPAD_DPAD_RIGHT)))

\* the part of C31 the code keeps: a modifier flips only in a call that finds the click
\* and one of its two directions held
C31_FlipNeedsClick ==
    (last.op = "handle_duke" /\ "wb" \in DOMAIN last) =>
        /\ Flipped(XINPUT_MOD_RSY_INVERT) =>
              (ClickHeld /\ BitAnd(last.wb, XINPUT_GAMEPAD_DPAD_UP
                                             + XINPUT_GAMEPAD_DPAD_DOWN) # 0)
        /\ Flipped(XINPUT_MOD_RSX_INVERT) =>
              (ClickHeld /\ BitAnd(last.wb, XINPUT_GAMEPAD_DPAD_LEFT
                                             + XINPUT_GAMEPAD_DPAD_RIGHT) # 0)

\* up and down were pressed together with the click held; the call after, with the
\* same buttons held, flips Y-invert a second time
C31_WitnessSecondFlip ==
    /\ ClickHeld
    /\ last.wb = XINPUT_GAMEPAD_RIGHT_THUMB + XINPUT_GAMEPAD_DPAD_UP
                  + XINPUT_GAMEPAD_DPAD_DOWN
    /\ last.wb_held = last.wb
    /\ Flipped(XINPUT_MOD_RSY_INVERT)

\* up was held before the click: the call that first finds the click flips Y-invert
C31_WitnessHeldBefore ==
    /\ ClickHeld
    /\ last.wb = XINPUT_GAMEPAD_RIGHT_THUMB + XINPUT_GAMEPAD_DPAD_UP
    /\ last.wb_held = XINPUT_GAMEPAD_DPAD_UP
    /\ Flipped(XINPUT_MOD_RSY_INVERT)

\* a press of up that begins with the click held and does not flip Y-invert
C31_WitnessLostPress ==
    /\ ClickHeld
    /\ last.wb = XINPUT_GAMEPAD_RIGHT_THUMB + XINPUT_GAMEPAD_DPAD_UP
    /\ last.wb_held = 0
    /\ ~Flipped(XINPUT_MOD_RSY_INVERT)

----------------------------------------------------------------------------
(* SpecQuery: usbh_xinput_is_chatpad_pressed on record 0, for the chatpad states the
   receiver's reports leave and for the freed record *)

\* the modifier bytes and key bytes of the chatpad reports
QueryMods ==
    {0, XINPUT_CHATPAD_SHIFT, XINPUT_CHATPAD_GREEN, XINPUT_CHATPAD_ORANGE,
     XINPUT_CHATPAD_MESSENGER, XINPUT_CHATPAD_CAPSLOCK,
     XINPUT_CHATPAD_SHIFT + XINPUT_CHATPAD_CAPSLOCK}
QueryKeys == {0, XINPUT_CHATPAD_Q, XINPUT_CHATPAD_1}

\* the five modifier codes and the codes the queries are made for
ModifierCodes ==
    {XINPUT_CHATPAD_SHIFT, XINPUT_CHATPAD_GREEN, XINPUT_CHATPAD_ORANGE,
     XINPUT_CHATPAD_MESSENGER, XINPUT_CHATPAD_CAPSLOCK}
QueryCodes == ModifierCodes \cup {XINPUT_CHATPAD_Q, XINPUT_CHATPAD_1, XINPUT_CHATPAD_A}

\* UsbHost.Task() calls Poll; the in endpoint 1 delivers a chatpad report
QueryReport ==
    /\ xin.bIsReady
    /\ \E mods \in QueryMods, k1 \in QueryKeys, k2 \in {0, XINPUT_CHATPAD_A} :
         \E r \in {UsbHostTask([devs |-> xinput_devices, xdata |-> xdata], xin,
                               EvPacket(1, PktChatpad(mods, k1, k2)), now)} :
            /\ xin' = r.cls
            /\ xinput_devices' = r.h.devs
            /\ xdata' = r.h.xdata
            /\ last' = [op |-> "Poll"]
    /\ UNCHANGED <<peer_c, usbd_c, user_data, sb_sensitivity, eeprom, xid, detach, now,
                   poll_timer, pc, edge>>

\* a call of usbh_xinput_is_chatpad_pressed for record 0
QueryCode ==
    /\ \E code \in QueryCodes :
         last' = [op |-> "is_chatpad_pressed", code |-> code,
                  ret |-> usbh_xinput_is_chatpad_pressed(xinput_devices[0], code)]
    /\ UNCHANGED <<xin, xinput_devices, xdata, peer_c, usbd_c, user_data, sb_sensitivity,
                   eeprom, xid, detach, now, poll_timer, pc, edge>>

NextQuery ==
    \/ QueryReport
    \/ QueryCode
    \/ LinkRelease

SpecQuery == InitDuke /\ [][NextQuery]_vars

\* C32: usbh_xinput_is_chatpad_pressed reports each of the five modifier codes (shift,
\* green, orange, messenger, capslock) down iff its bit is set in chatpad_state[0], every
\* other code down iff it equals one of the two key slots, and returns 0 for any code
\* when the record's bus address is 0.
C32_IsDownQuery ==
    last.op = "is_chatpad_pressed" =>
        LET x == xinput_devices[0] IN
        (last.ret # 0) <=>
            /\ x.bAddress # 0
            /\ IF last.code \in ModifierCodes
               THEN BitAnd(x.chatpad_state[0], last.code) # 0
               ELSE last.code \in {x.chatpad_state[1], x.chatpad_state[2]}

\* C32 for the codes the query handles as the claim says: all but capslock
C32_IsDownQueryBelow17 ==
    (last.op = "is_chatpad_pressed" /\ last.code # XINPUT_CHATPAD_CAPSLOCK) =>
        LET x == xinput_devices[0] IN
        (last.ret # 0) <=>
            /\ x.bAddress # 0
            /\ IF last.code \in ModifierCodes
               THEN BitAnd(x.chatpad_state[0], last.code) # 0
               ELSE last.code \in {x.chatpad_state[1], x.chatpad_state[2]}

\* the capslock bit is set in the modifier byte of a linked pad and the query for
\* capslock returns 0
C32_WitnessCapslock ==
    /\ last.op = "is_chatpad_pressed" /\ last.code = XINPUT_CHATPAD_CAPSLOCK
    /\ xinput_devices[0].bAddress # 0
    /\ BitAnd(xinput_devices[0].chatpad_state[0], XINPUT_CHATPAD_CAPSLOCK) # 0
    /\ last.ret = 0

\* a query on the freed record
C32_WitnessFreed ==
    /\ last.op = "is_chatpad_pressed" /\ xinput_devices[0].bAddress = 0 /\ last.ret = 0

----------------------------------------------------------------------------
(* SpecHold: master_task with slot 0 switched between the two families while the
   left-stick click is worked; the pointer starts away from the midpoint *)

\* millis() is not advanced beyond this value in the recentre specification
MaxNowHold == 900

\* what the receiver delivers: the click pressed and released, green, orange and no
\* modifier on the chatpad
HoldEvents ==
    {EvPacket(1, PktPad(XINPUT_GAMEPAD_LEFT_THUMB, 0, 0, 0, 0, 0, 0)),
     EvPacket(1, PktPad(0, 0, 0, 0, 0, 0, 0)),
     EvPacket(1, PktChatpad(XINPUT_CHATPAD_GREEN, 0, 0)),
     EvPacket(1, PktChatpad(XINPUT_CHATPAD_ORANGE, 0, 0)),
     EvPacket(1, PktChatpad(0, 0, 0))}

InitHold ==
    InitMapFrom(CockpitReady(EepromBlank), <<65500, 65500>>)

\* what master_task() leaves, r being its result: last holds the time of the call,
\* whether it found the click held, the time of the latest call that found it
\* released (0: none since boot) and whether the call put the pointer on the midpoint
HoldTaskEffect(r) ==
    /\ xinput_devices' = r.h.devs
    /\ xdata' = r.h.xdata
    /\ xin' = r.cls
    /\ usbd_c' = r.usbd_c
    /\ user_data' = r.user_data
    /\ sb_sensitivity' = r.sens
    /\ eeprom' = r.ee
    /\ last' = [op |-> "master_task", ticks |-> 0, at |-> now, thumb_since |-> -1,
                click |-> BitAnd(r.h.devs[0].pad_state.wButtons,
                                 XINPUT_GAMEPAD_LEFT_THUMB) # 0,
                released_at |-> IF BitAnd(r.h.devs[0].pad_state.wButtons,
                                          XINPUT_GAMEPAD_LEFT_THUMB) = 0 THEN now
                                ELSE IF "released_at" \in DOMAIN last
                                THEN last.released_at ELSE 0,
                recentred |-> /\ user_data[0].vmouse_x # SBC_AIMING_MID
                              /\ r.user_data[0].vmouse_x = SBC_AIMING_MID,
                type |-> r.usbd_c[0].type]

\* loop(): the call of master_task(), the receiver delivering one report
HoldTask ==
    /\ \E ev \in HoldEvents :
         \E r \in {master_task([devs |-> xinput_devices, xdata |-> xdata], xin, usbd_c,
                               user_data, sb_sensitivity, eeprom, ev, PeersAbsent, now)} :
            HoldTaskEffect(r)
    /\ UNCHANGED <<xid, detach, now, poll_timer, pc, peer_c, edge>>

NextHold ==
    \/ AdvanceTime({300}, MaxNowHold)
    \/ HoldTask

SpecHold == InitHold /\ [][NextHold]_vars

\* C33: the left-stick click recentres the pointer only after it has been held
\* continuously for more than 500 ms: a call of master_task that recentres comes more
\* than 500 ms after the latest call that found the click released, whichever family
\* slot 0 was in at that call.
C33_RecentreOnlyAfterHold ==
    (last.op = "master_task" /\ "recentred" \in DOMAIN last /\ last.recentred) =>
        /\ last.click
        /\ last.at - last.released_at > HOLD_MS

\* the click was found released 300 ms ago by a call with slot 0 in standard mode; the
\* first cockpit call after it finds the click held and recentres
C33_WitnessEarly ==
    /\ last.op = "master_task" /\ "recentred" \in DOMAIN last /\ last.recentred
    /\ last.click /\ last.type = STEELBATTALION
    /\ last.at - last.released_at = 300

\* a recentre after the click was held for 600 ms
C33_WitnessHeld ==
    /\ last.op = "master_task" /\ "recentred" \in DOMAIN last /\ last.recentred
    /\ last.click /\ last.type = STEELBATTALION
    /\ last.at - last.released_at = 600

----------------------------------------------------------------------------
(* SpecReceive: the coordinator's exchanges with the peers of the slots 1..3, the read
   request returning all, some or none of the bytes asked for *)

\* what the bus does in the exchange of one slot: the write is not acknowledged; the
\* read request returns nothing, one byte less than asked for, all bytes
ReceiveKinds == {"nack", "none", "short", "full"}

\* the out report a peer answers with: n bytes, the rumble byte set
ReceiveBytes(n) == [k \in 1..n |-> IF k = 2 THEN n ELSE IF k = 4 THEN 128 ELSE 0]

\* [error, resp] for a slot of family type
ReceiveOutcome(kind, type) ==
    [error |-> IF kind = "nack" THEN 2 ELSE 0,
     resp |-> IF kind = "full" THEN ReceiveBytes(RxLen(type))
              ELSE IF kind = "short" /\ RxLen(type) > 0
              THEN ReceiveBytes(RxLen(type) - 1)
              ELSE <<>>]

ReceiveEvents ==
    {EvIdle, EvPacket(3, PktChatpad(XINPUT_CHATPAD_ORANGE, 0, 0)),
     EvPacket(3, PktChatpad(XINPUT_CHATPAD_GREEN, 0, 0))}

\* the Wire receive buffer after each of the three exchanges, from an empty buffer
ReceiveLeft(c, peers) ==
    LET l1 == WireLeft(c[1], peers[1], <<>>)
        l2 == WireLeft(c[2], peers[2], l1)
        l3 == WireLeft(c[3], peers[3], l2)
    IN (1 :> l1) @@ (2 :> l2) @@ (3 :> l3)

\* what master_task() leaves: r is its result with no exchange made, peers what the
\* bus does for the slots 1..3
ReceiveTaskEffect(r, peers) ==
    /\ xinput_devices' = r.h.devs
    /\ xdata' = r.h.xdata
    /\ xin' = r.cls
    /\ usbd_c' = [i \in 0..(MAX_GAMEPADS - 1) |->
                     IF i = 0 THEN r.usbd_c[0] ELSE PeerExchange(r.usbd_c[i], peers[i])]
    /\ user_data' = r.user_data
    /\ sb_sensitivity' = r.sens
    /\ eeprom' = r.ee
    /\ last' = [op |-> "master_task", peers |-> peers, pre |-> usbd_c,
                left |-> ReceiveLeft(r.usbd_c, peers)]

\* loop() on the coordinator: master_task().  An exchange that fails leaves the slot
\* as mapped, so the slots are mapped first and exchanged then
ReceiveTask ==
    /\ \E ev \in ReceiveEvents, k1 \in ReceiveKinds, k2 \in {"nack", "short", "full"},
          k3 \in {"nack", "full"} :
         \E r \in {master_task([devs |-> xinput_devices, xdata |-> xdata], xin, usbd_c,
                               user_data, sb_sensitivity, eeprom, ev, PeersAbsent, now)} :
            ReceiveTaskEffect(r, (1 :> ReceiveOutcome(k1, r.usbd_c[1].type))
                                 @@ (2 :> ReceiveOutcome(k2, r.usbd_c[2].type))
                                 @@ (3 :> ReceiveOutcome(k3, r.usbd_c[3].type)))
    /\ UNCHANGED <<xid, detach, now, poll_timer, pc, peer_c, edge>>

NextReceive == ReceiveTask

SpecReceive == InitBus /\ [][NextReceive]_vars

\* C34: the coordinator overwrites slot i's out report only when the read request
\* returned exactly rx_len bytes, and then with exactly those rx_len bytes; otherwise
\* both out reports of the slot are unchanged; after every exchange that followed an
\* acknowledged write the Wire receive buffer is empty.
C34_ReceiveAllOrNothing ==
    (last.op = "master_task" /\ "left" \in DOMAIN last) =>
        \A i \in 1..(MAX_GAMEPADS - 1) :
            LET c == usbd_c[i]
                peer == last.peers[i]
            IN /\ IF peer.error = 0 /\ RxLen(c.type) # 0
                      /\ Len(peer.resp) = RxLen(c.type)
                  THEN /\ OutOf(c, c.type) = [j \in 0..(RxLen(c.type) - 1) |-> peer.resp[j + 1]]
                       /\ c.type = DUKE => c.sb.out = last.pre[i].sb.out
                       /\ c.type = STEELBATTALION => c.duke.out = last.pre[i].duke.out
                  ELSE /\ c.duke.out = last.pre[i].duke.out
                       /\ c.sb.out = last.pre[i].sb.out
               /\ peer.error = 0 => last.left[i] = <<>>

\* slot 1 holds a received out report; the next read request returns one byte less
\* than asked for and the report stays as it was
C34_Witness ==
    /\ last.op = "master_task" /\ "left" \in DOMAIN last
    /\ last.peers[1].error = 0
    /\ Len(last.peers[1].resp) = RxLen(usbd_c[1].type) - 1
    /\ OutOf(usbd_c[1], usbd_c[1].type)
         = [j \in 0..(RxLen(usbd_c[1].type) - 1) |->
               ReceiveBytes(RxLen(usbd_c[1].type))[j + 1]]
    /\ last.left[1] = <<>>

----------------------------------------------------------------------------
(* SpecTorn: a peer board whose bus receive callback runs from the TWI interrupt, at
   any point of loop().  sendReport's memcpy out of usbd_c[0] runs with interrupts
   enabled; the specification stops it once, after k bytes *)

MaxNowTorn == 8

\* two in reports of the coordinator, differing in the buttons (byte 2) and in an
\* axis (byte 12)
TornReportA == Pkt(SIZEOF_DUKE_IN, (1 :> SIZEOF_DUKE_IN) @@ (2 :> 1) @@ (12 :> 100))
TornReportB == Pkt(SIZEOF_DUKE_IN, (1 :> SIZEOF_DUKE_IN) @@ (2 :> 2) @@ (12 :> 200))
TornReports == {TornReportA, TornReportB}

\* the bytes memcpy has copied when the interrupt is taken
TornSplits == {0, 10, SIZEOF_DUKE_IN}

\* the peer board the specification steps
TornPeer == CHOOSE i \in BusPeers : TRUE

\* pc: where loop() of the peer stands; hit: the callback ran since memcpy began.
\* edge: the complete in reports the board has held, the one of setup() first
InitTorn ==
    /\ xin = BusReady.cls
    /\ xinput_devices = BusReady.h.devs
    /\ xdata = BusReady.h.xdata
    /\ usbd_c = BusReady.usbd_c
    /\ user_data = BusReady.user_data
    /\ sb_sensitivity = BusReady.sens
    /\ eeprom = BusReady.ee
    /\ xid = XidConstructed
    /\ detach = FALSE
    /\ now = 0
    /\ poll_timer = 0
    /\ pc = [at |-> "loop", k |-> 0, hit |-> FALSE]
    /\ peer_c = PeerBoot
    /\ last = [op |-> "setup()"]
    /\ edge = {BytesOf(PeerSetup.duke.in, SIZEOF_DUKE_IN)}

\* memcpy(dst, src, n) between its bytes a and b - 1; src a sequence
memcpy_part(dst, src, a, b) ==
    [i \in DOMAIN dst |-> IF a <= i /\ i < b THEN src[i + 1] ELSE dst[i]]

\* the TWI interrupt: i2c_get_data() with a status packet of the coordinator
TornReceive ==
    /\ \E rep \in TornReports :
         /\ peer_c' = [peer_c EXCEPT ![TornPeer].c = i2c_get_data(@, <<240 + DUKE>> \o rep)]
         /\ edge' = edge \cup {rep}
         /\ last' = [op |-> "i2c_get_data", rep |-> rep]
    /\ pc' = [pc EXCEPT !.hit = (pc.at = "memcpy")]
    /\ UNCHANGED <<xin, xinput_devices, xdata, usbd_c, user_data, sb_sensitivity, eeprom,
                   xid, detach, now, poll_timer>>

\* loop() of the peer finds the standard family on both sides and sendReport's memcmp
\* finds the report changed
TornCopies(p) ==
    /\ Elapsed(now, p.poll_timer) >= POLL_INTERVAL_MS
    /\ getType(p.xid) = DUKE
    /\ p.c.type = DUKE
    /\ Differs(p.xid.xid_in_data, BytesOf(p.c.duke.in, SIZEOF_DUKE_IN),
               MIN(SIZEOF_DUKE_IN, XID_BUF_SIZE))

\* loop() with no report to copy: the whole of it
TornLoop ==
    /\ pc.at = "loop"
    /\ ~TornCopies(peer_c[TornPeer])
    /\ \E io \in BusIos :
         peer_c' = [peer_c EXCEPT ![TornPeer] = PeerLoop(@, io, now)]
    /\ last' = [op |-> "loop"]
    /\ UNCHANGED <<xin, xinput_devices, xdata, usbd_c, user_data, sb_sensitivity, eeprom,
                   xid, detach, now, poll_timer, pc, edge>>

\* loop() up to the k-th byte of sendReport's memcpy
TornCopyBegin ==
    /\ pc.at = "loop"
    /\ TornCopies(peer_c[TornPeer])
    /\ \E k \in TornSplits :
         /\ peer_c' = [peer_c EXCEPT ![TornPeer].xid.xid_in_data =
                          memcpy_part(@, BytesOf(peer_c[TornPeer].c.duke.in, SIZEOF_DUKE_IN),
                                      0, k)]
         /\ pc' = [at |-> "memcpy", k |-> k, hit |-> FALSE]
    /\ last' = [op |-> "memcpy"]
    /\ UNCHANGED <<xin, xinput_devices, xdata, usbd_c, user_data, sb_sensitivity, eeprom,
                   xid, detach, now, poll_timer, edge>>

\* the rest of loop(): the bytes from k on, USB_Send of the local copy, getReport
TornCopyEnd ==
    /\ pc.at = "memcpy"
    /\ \E send_ok \in BOOLEAN :
         LET p == peer_c[TornPeer]
             buf == memcpy_part(p.xid.xid_in_data, BytesOf(p.c.duke.in, SIZEOF_DUKE_IN),
                                pc.k, MIN(SIZEOF_DUKE_IN, XID_BUF_SIZE))
             gr == getReport([p.xid EXCEPT !.xid_in_data = buf], p.c.duke.out,
                             SIZEOF_DUKE_OUT, RecvNothing, now)
         IN /\ peer_c' = [peer_c EXCEPT ![TornPeer] =
                             [c |-> [p.c EXCEPT !.duke.out = gr.data], xid |-> gr.x,
                              detach |-> FALSE, poll_timer |-> now]]
            /\ last' = [op |-> "sendReport", interrupted |-> pc.hit,
                        tx |-> IF send_ok THEN BytesOf(buf, SIZEOF_DUKE_IN) ELSE <<>>]
    /\ pc' = [at |-> "loop", k |-> 0, hit |-> FALSE]
    /\ UNCHANGED <<xin, xinput_devices, xdata, usbd_c, user_data, sb_sensitivity, eeprom,
                   xid, detach, now, poll_timer, edge>>

NextTorn ==
    \/ AdvanceTime({POLL_INTERVAL_MS}, MaxNowTorn)
    \/ TornReceive
    \/ TornLoop
    \/ TornCopyBegin
    \/ TornCopyEnd

SpecTorn == InitTorn /\ [][NextTorn]_vars

\* C35: the report sendReport transmits on a peer is one complete in report of the
\* coordinator or the report of setup(), whenever the bus receive callback runs.
C35_ReportIntegrity ==
    (last.op = "sendReport" /\ last.tx # <<>>) => last.tx \in edge

\* a transmitted report that is no complete report was copied across a run of the
\* callback
C35_TornOnlyByInterrupt ==
    (last.op = "sendReport" /\ last.tx # <<>> /\ last.tx \notin edge) => last.interrupted

\* the buttons of one report of the coordinator transmitted with the axis of the other
C35_WitnessTorn ==
    /\ last.op = "sendReport"
    /\ last.tx # <<>>
    /\ last.tx[3] = TornReportA[3]
    /\ last.tx[13] = TornReportB[13]

\* a report copied across a run of the callback and transmitted whole all the same
C35_WitnessWhole ==
    /\ last.op = "sendReport"
    /\ last.interrupted
    /\ last.tx \in TornReports

----------------------------------------------------------------------------
(* SpecFamily: master_task() over pads that link, leave and press the chatpad's
   family keys *)

\* the receiver attached, no pad linked
FamilyReady == RunTasks(BootState(EepromBlank), <<EvAttach(XBOX360_WIRELESS)>>, 1)

FamilyEvents ==
    {EvIdle, EvDetach, EvAttach(XBOX360_WIRELESS),
     EvPacket(1, PktConnect), EvPacket(1, PktDisconnect),
     EvPacket(3, PktConnect), EvPacket(3, PktDisconnect)}
    \cup {EvPacket(ep, PktChatpad(m, 0, 0)) :
             ep \in {1, 3},
             m \in {0, XINPUT_CHATPAD_GREEN, XINPUT_CHATPAD_ORANGE,
                    XINPUT_CHATPAD_GREEN + XINPUT_CHATPAD_ORANGE}}

InitFamily == InitBusFrom(FamilyReady)

\* what master_task() leaves, r being its result; last keeps the family of each slot
\* before the call
FamilyTaskEffect(r) ==
    /\ xinput_devices' = r.h.devs
    /\ xdata' = r.h.xdata
    /\ xin' = r.cls
    /\ usbd_c' = r.usbd_c
    /\ user_data' = r.user_data
    /\ sb_sensitivity' = r.sens
    /\ eeprom' = r.ee
    /\ last' = [op |-> "master_task",
                pre_type |-> [i \in 0..(MAX_GAMEPADS - 1) |-> usbd_c[i].type]]

\* loop(): the call of master_task()
FamilyTask ==
    /\ \E ev \in FamilyEvents :
         \E r \in {master_task([devs |-> xinput_devices, xdata |-> xdata], xin, usbd_c,
                               user_data, sb_sensitivity, eeprom, ev, PeersAbsent, now)} :
            FamilyTaskEffect(r)
    /\ UNCHANGED <<xid, detach, now, poll_timer, pc, peer_c, edge>>

NextFamily == FamilyTask

SpecFamily == InitFamily /\ [][NextFamily]_vars

GreenDown(i) ==
    usbh_xinput_is_chatpad_pressed(xinput_devices[i], XINPUT_CHATPAD_GREEN) # 0
OrangeDown(i) ==
    usbh_xinput_is_chatpad_pressed(xinput_devices[i], XINPUT_CHATPAD_ORANGE) # 0

\* C36: after master_task has processed slot i, usbd_c[i].type is DISCONNECTED if and
\* only if record i's bus address is 0; a slot that leaves DISCONNECTED becomes the
\* standard gamepad; a slot becomes the cockpit only in a call that finds chatpad
\* orange down and green not; with green down the slot is the standard gamepad.
C36_FamilyTracksConnection ==
    (last.op = "master_task" /\ "pre_type" \in DOMAIN last) =>
        \A i \in 0..(MAX_GAMEPADS - 1) :
            /\ (usbd_c[i].type = DISCONNECTED) <=> (xinput_devices[i].bAddress = 0)
            /\ (last.pre_type[i] = DISCONNECTED /\ usbd_c[i].type # DISCONNECTED)
                   => usbd_c[i].type = DUKE
            /\ (last.pre_type[i] # STEELBATTALION /\ usbd_c[i].type = STEELBATTALION)
                   => (OrangeDown(i) /\ ~GreenDown(i))
            /\ GreenDown(i) => usbd_c[i].type = DUKE

\* slot 1 leaves DISCONNECTED while slot 0 is the cockpit
C36_WitnessLeaves ==
    /\ last.op = "master_task" /\ "pre_type" \in DOMAIN last
    /\ last.pre_type[1] = DISCONNECTED
    /\ usbd_c[1].type = DUKE
    /\ usbd_c[0].type = STEELBATTALION

\* green and orange both down on a slot that was the cockpit
C36_WitnessBoth ==
    /\ last.op = "master_task" /\ "pre_type" \in DOMAIN last
    /\ last.pre_type[0] = STEELBATTALION
    /\ GreenDown(0) /\ OrangeDown(0)
    /\ usbd_c[0].type = DUKE

\* a slot that was the cockpit is DISCONNECTED after its pad left
C36_WitnessGone ==
    /\ last.op = "master_task" /\ "pre_type" \in DOMAIN last
    /\ last.pre_type[0] = STEELBATTALION
    /\ usbd_c[0].type = DISCONNECTED
    /\ xinput_devices[0].bAddress = 0

----------------------------------------------------------------------------
(* SpecSticky: handle_sbattalion on slot 0 in cockpit mode, the inputs of the
   momentary bits of button word 2 pressed and released *)

StickyButtons == {0, XINPUT_GAMEPAD_LEFT_THUMB, XINPUT_GAMEPAD_BACK, XINPUT_GAMEPAD_Y}

\* chatpad states: nothing, 5 alone, 5 with messenger, Q, G
StickyChats ==
    {Zeros(3),
     (0 :> 0) @@ (1 :> XINPUT_CHATPAD_5) @@ (2 :> 0),
     (0 :> XINPUT_CHATPAD_MESSENGER) @@ (1 :> XINPUT_CHATPAD_5) @@ (2 :> 0),
     (0 :> 0) @@ (1 :> XINPUT_CHATPAD_Q) @@ (2 :> 0),
     (0 :> 0) @@ (1 :> XINPUT_CHATPAD_G) @@ (2 :> 0)}

InitSticky == InitMapFrom(CockpitReady(EepromBlank), <<SBC_AIMING_MID, SBC_AIMING_MID>>)

\* what the call leaves, r being its result; last holds the inputs of the call
StickyTickEffect(r, wb, chat) ==
    /\ xinput_devices' = [xinput_devices EXCEPT ![0] = r.x]
    /\ usbd_c' = [usbd_c EXCEPT ![0].sb.in = r.sb_in]
    /\ user_data' = [user_data EXCEPT ![0] = r.ud]
    /\ sb_sensitivity' = r.sens
    /\ eeprom' = r.ee
    /\ last' = [op |-> "handle_sbattalion", pressed |-> wb, chat |-> chat]

\* one call of handle_sbattalion for slot 0, the decoder having delivered the buttons
\* and the chatpad state
StickyTick ==
    /\ \E wb \in StickyButtons, chat \in StickyChats :
         \E r \in {handle_sbattalion([xinput_devices[0] EXCEPT !.pad_state.wButtons = wb,
                                                               !.chatpad_state = chat],
                                     usbd_c[0].sb, user_data[0], sb_sensitivity, eeprom,
                                     now)} :
            StickyTickEffect(r, wb, chat)
    /\ UNCHANGED <<peer_c, xin, xdata, xid, detach, now, poll_timer, pc, edge>>

NextSticky == StickyTick

SpecSticky == InitSticky /\ [][NextSticky]_vars

StickyCall == last.op = "handle_sbattalion" /\ "pressed" \in DOMAIN last

\* a chatpad key is down in the state of the call
StickyKeyDown(code) == last.chat[1] = code \/ last.chat[2] = code

\* C37: in every cockpit report a momentary bit of button word 2 is set only if its
\* source is pressed in the same call: the sight-change bit with the left-stick click,
\* the COMM5 bit with chatpad 5 and the mode button.
C37_MomentaryNotSticky ==
    StickyCall =>
        /\ Bit(usbd_c[0].sb.in.wButtons[2], SBC_W2_LEFTJOYSIGHTCHANGE)
               => Bit(last.pressed, XINPUT_GAMEPAD_LEFT_THUMB)
        /\ Bit(usbd_c[0].sb.in.wButtons[2], SBC_W2_COMM5)
               => /\ StickyKeyDown(XINPUT_CHATPAD_5)
                  /\ (Bit(last.chat[0], XINPUT_CHATPAD_MESSENGER)
                      \/ Bit(last.pressed, XINPUT_GAMEPAD_BACK))

\* what the code keeps: the two bits are set in every call that finds their source
\* pressed, and the chaff bit of word 1 is set exactly in the calls that find pad Y or
\* chatpad G pressed
C37_MomentarySetAndWord1 ==
    StickyCall =>
        /\ Bit(last.pressed, XINPUT_GAMEPAD_LEFT_THUMB)
               => Bit(usbd_c[0].sb.in.wButtons[2], SBC_W2_LEFTJOYSIGHTCHANGE)
        /\ (StickyKeyDown(XINPUT_CHATPAD_5) /\ Bit(last.chat[0], XINPUT_CHATPAD_MESSENGER))
               => Bit(usbd_c[0].sb.in.wButtons[2], SBC_W2_COMM5)
        /\ Bit(usbd_c[0].sb.in.wButtons[1], SBC_W1_CHAFF)
               <=> (Bit(last.pressed, XINPUT_GAMEPAD_Y) \/ StickyKeyDown(XINPUT_CHATPAD_G))

\* the sight-change bit set in a call that finds no button pressed
C37_WitnessSightChange ==
    /\ StickyCall
    /\ last.pressed = 0
    /\ Bit(usbd_c[0].sb.in.wButtons[2], SBC_W2_LEFTJOYSIGHTCHANGE)

\* the COMM5 bit set in a call that finds no chatpad key down
C37_WitnessComm5 ==
    /\ StickyCall
    /\ last.chat = Zeros(3)
    /\ Bit(usbd_c[0].sb.in.wButtons[2], SBC_W2_COMM5)

----------------------------------------------------------------------------
(* SpecStatus: a peer board receiving bus transactions with every status byte and
   several lengths *)

MaxNowStatus == 4

\* the status bytes 0xF0..0xFF
StatusBytes == {240 + n : n \in 0..15}

\* transactions: nothing, the ping, a status byte alone, with a standard in report,
\* with a cockpit in report, a byte that is no status
StatusPackets ==
    {<<>>, <<170>>, <<16, 1, 2>>}
    \cup {<<b>> : b \in StatusBytes}
    \cup {<<b>> \o BytesOf(OutReport(SIZEOF_DUKE_IN), SIZEOF_DUKE_IN) : b \in StatusBytes}
    \cup {<<b>> \o BytesOf(OutReport(SIZEOF_SB_IN), SIZEOF_SB_IN) :
             b \in {240 + DUKE, 240 + STEELBATTALION, 243, 255}}

\* the bus delivers a transaction to the peer board i: its onReceive handler runs
StatusReceive ==
    /\ \E i \in BusPeers, msg \in StatusPackets :
         /\ peer_c' = [peer_c EXCEPT ![i].c = i2c_get_data(@, msg)]
         /\ last' = [op |-> "i2c_get_data", peer |-> i, msg |-> msg,
                      pre_type |-> peer_c[i].c.type]
    /\ UNCHANGED <<xin, xinput_devices, xdata, usbd_c, user_data, sb_sensitivity, eeprom,
                   xid, detach, now, poll_timer, pc, edge>>

NextStatus ==
    \/ AdvanceTime({POLL_INTERVAL_MS}, MaxNowStatus)
    \/ StatusReceive
    \/ BusPeerLoop

SpecStatus == InitBus /\ [][NextStatus]_vars

\* C38: in every reachable state of a peer usbd_c[0].type is one of DISCONNECTED,
\* DUKE, STEELBATTALION, whatever transactions the bus delivered.
C38_PeerTypeDefined ==
    \A i \in BusPeers : peer_c[i].c.type \in {DISCONNECTED, DUKE, STEELBATTALION}

\* what the code keeps: the type is the low nibble of the latest status byte, and a
\* transaction that is empty, a ping or no status leaves it alone
C38_TypeIsLowNibble ==
    (last.op = "i2c_get_data" /\ "pre_type" \in DOMAIN last) =>
        peer_c[last.peer].c.type =
            IF Len(last.msg) >= 1 /\ last.msg[1] \in StatusBytes
            THEN last.msg[1] - 240 ELSE last.pre_type

\* the status byte 0xF3 alone has left the type 3
C38_WitnessUndefined ==
    /\ last.op = "i2c_get_data" /\ "pre_type" \in DOMAIN last
    /\ last.msg = <<243>>
    /\ peer_c[last.peer].c.type = 3

\* loop() has run on a peer whose type is 15
C38_WitnessLoop ==
    /\ last.op = "loop"
    /\ peer_c[last.peer].c.type = 15
    /\ peer_c[last.peer].poll_timer = MaxNowStatus

----------------------------------------------------------------------------
(* SpecResend: successive calls of sendReport, the endpoint taking the report or not *)

\* sendReport(data, len); last keeps the call before it: its report and whether its
\* transmission failed
ResendReport ==
    \E in \in XidSendInputs, usb_ok \in BOOLEAN :
      LET r == sendReport(xid, in.data, in.len, usb_ok) IN
      /\ xid' = r.x
      /\ last' = [op |-> "sendReport", data |-> in.data, len |-> in.len,
                  pre_in |-> xid.xid_in_data, usb_ok |-> usb_ok, ret |-> r.ret,
                  attempted |-> r.attempted, tx |-> r.tx,
                  prev_data |-> IF last.op = "sendReport" THEN last.data ELSE <<>>,
                  prev_failed |-> /\ last.op = "sendReport"
                                  /\ last.attempted /\ ~last.usb_ok]
      /\ UNCHANGED <<peer_c, xin, xinput_devices, xdata, usbd_c, user_data, sb_sensitivity,
                     eeprom, detach, now, poll_timer, pc, edge>>

NextResend == ResendReport

SpecResend == InitXid /\ [][NextResend]_vars

ResendCall == last.op = "sendReport" /\ "prev_failed" \in DOMAIN last

\* C39: the last-sent buffer holds only reports that were transmitted in full: a call
\* whose transmission fails leaves it as it was, and the next call with the same
\* report transmits again.
C39_RetryAfterFailedSend ==
    ResendCall =>
        /\ (last.attempted /\ ~last.usb_ok) => xid.xid_in_data = last.pre_in
        /\ (last.prev_failed /\ last.data = last.prev_data) => last.attempted

\* what the code keeps: a report that differs from the one of the failed call within
\* the size of the buffer is transmitted
C39_OtherReportSent ==
    ResendCall =>
        ((last.prev_failed /\ last.len = Len(last.prev_data)
          /\ PrefixSeq(last.data, MIN(last.len, XID_BUF_SIZE))
                # PrefixSeq(last.prev_data, MIN(last.len, XID_BUF_SIZE)))
            => last.attempted)

\* the call after a failed transmission, with the same report, transmits nothing and
\* returns the length
C39_WitnessSuppressed ==
    /\ ResendCall
    /\ last.prev_failed
    /\ last.data = last.prev_data
    /\ ~last.attempted
    /\ last.ret = SIZEOF_DUKE_IN

\* a failed transmission has left the report in the last-sent buffer
C39_WitnessStored ==
    /\ ResendCall
    /\ last.attempted /\ ~last.usb_ok
    /\ last.ret = -1
    /\ xid.xid_in_data # last.pre_in

----------------------------------------------------------------------------
(* SpecRumble: a wired pad whose requested rumble stays as it is, polled every 20 ms
   for ever; the pad may answer with its rumble feedback report *)

\* millis() is counted within 0..MaxNowRumble and starts again at 0: the out pass of
\* Poll reads it only through the difference to the record's timer_out
MaxNowRumble == 60

\* what in endpoint 1 delivers during a Poll: nothing, or the pad's rumble feedback
\* report
RumblePackets == {NoPacket, Pkt(8, (0 :> 3) @@ (1 :> 8) @@ (3 :> 1) @@ (4 :> 1))}

\* the driver after Init of the wired pad
InitRumble ==
    /\ xin = FeedbackWired.cls
    /\ xinput_devices = FeedbackWired.h.devs
    /\ xdata = FeedbackWired.h.xdata
    /\ usbd_c = BootState(EepromBlank).usbd_c
    /\ user_data = BootState(EepromBlank).user_data
    /\ sb_sensitivity = BootState(EepromBlank).sens
    /\ eeprom = BootState(EepromBlank).ee
    /\ xid = XidConstructed
    /\ detach = FALSE
    /\ now = 0
    /\ poll_timer = 0
    /\ pc = "task"
    /\ peer_c = PeerBoot
    /\ last = [op |-> "Init", rumbles |-> 0, leds |-> 0, fed |-> FALSE]
    /\ edge = EdgeInit

\* the out pass of a Poll at time t runs for the record d
RumbleOutPass(d, t) == d.bAddress # 0 /\ Elapsed(t, d.timer_out) >= 20

\* what a Poll at time t leaves: r is what UsbHost.Task() returns, mid the record when
\* the loop of Poll reaches the out endpoint.  last counts the rumble commands (up to
\* 2) and the LED commands (up to 1) emitted so far, fed: a feedback report was decoded
RumblePollEffect(r, mid, t, pkt) ==
    /\ now' = t
    /\ xin' = r.cls
    /\ xinput_devices' = r.h.devs
    /\ xdata' = r.h.xdata
    /\ last' = [op |-> "Poll", pkt |-> pkt,
                rumbles |-> IF RumbleOutPass(mid, t) /\ WantsRumble(mid)
                            THEN MIN(last.rumbles + 1, 2) ELSE last.rumbles,
                leds |-> IF RumbleOutPass(mid, t) /\ ~WantsRumble(mid) /\ WantsLed(mid)
                         THEN 1 ELSE last.leds,
                fed |-> last.fed \/ pkt # NoPacket]

\* loop() 20 ms after the Poll before: UsbHost.Task() calls Poll
RumblePoll ==
    /\ xin.bIsReady
    /\ \E pkt \in RumblePackets, t \in {(now + 20) % (MaxNowRumble + 20)} :
         \E r \in {UsbHostTask([devs |-> xinput_devices, xdata |-> xdata], xin,
                               EvPacket(1, pkt), t)},
            mid \in {IF pkt = NoPacket THEN xinput_devices[0]
                     ELSE ParseInputData([devs |-> xinput_devices,
                                          xdata |-> CopyToXdata(xdata, pkt)],
                                         DeviceOfEndpoint(xinput_devices, 1), 1, xin,
                                         t).h.devs[0]} :
            RumblePollEffect(r, mid, t, pkt)
    /\ UNCHANGED <<usbd_c, user_data, sb_sensitivity, eeprom, xid, detach,
                   poll_timer, pc, peer_c, edge>>

\* the rumble values the application requests of record 0, before the first Poll
\* (handle_duke stores the left value of the out report into both)
RumbleRequests == {<<128, 128>>, <<64, 64>>}

\* handle_duke stores the rumble values of the console's out report, once
RumbleRequest ==
    /\ last.op = "Init"
    /\ \E rq \in RumbleRequests :
         xinput_devices' = [xinput_devices EXCEPT ![0].lValue_requested = rq[1],
                                                  ![0].rValue_requested = rq[2]]
    /\ last' = [last EXCEPT !.op = "request"]
    /\ UNCHANGED <<xin, xdata, usbd_c, user_data, sb_sensitivity, eeprom, xid, detach, now,
                   poll_timer, pc, peer_c, edge>>

NextRumble ==
    \/ RumbleRequest
    \/ RumblePoll

\* loop() runs for ever
SpecRumble ==
    /\ InitRumble
    /\ [][NextRumble]_vars
    /\ WF_vars(RumblePoll)

\* C40: with the requested rumble constant, once one rumble command has been
\* emitted to the wired pad no further one is emitted, whatever feedback reports are
\* decoded.
C40_RumbleEmittedOnce == last.rumbles <= 1

\* C40, the consequence: the LED command is eventually emitted.
C40_LedEventuallyServed == <>(last.leds = 1)

\* what the code keeps: while no feedback report has been decoded at most one rumble
\* command is emitted
C40_OnceWithoutFeedback == ~last.fed => last.rumbles <= 1

\* a second rumble command emitted after a feedback report, the LED command still
\* waiting
C40_WitnessSecondRumble ==
    /\ last.rumbles = 2
    /\ last.leds = 0
    /\ last.fed
    /\ xinput_devices[0].led_requested # xinput_devices[0].led_actual
    /\ xinput_devices[0].lValue_requested = 128

\* the LED command emitted after the one rumble command
C40_WitnessLedServed ==
    /\ last.rumbles = 1
    /\ last.leds = 1
    /\ xinput_devices[0].led_requested = xinput_devices[0].led_actual

====
